---------------------------- MODULE Spec2Model ----------------------------
(***************************************************************************)
(* ArcLint: the rule engine (layer assignment, unresolved-import,          *)
(* dependency-direction and circular-dependency checks) and the lexical    *)
(* import-graph analyzers (Kotlin, Python, Swift).                          *)
(*                                                                         *)
(* A source string is modelled as a sequence of one-character strings, so  *)
(* that globbing, trimming, splitting and the regular expressions of the   *)
(* code are computed character by character, as the code computes them.    *)
(***************************************************************************)
EXTENDS Integers, Sequences, FiniteSets, TLC

VARIABLES
    phase,      \* rule engine: "new" -> "constructed" -> "analyzed"
    config,     \* RuleEngine.config (ArchitectureConfig)
    layerMap,   \* RuleEngine.layerMap: layer name -> index of its LayerDefinition
    modules,    \* the Module[] argument of RuleEngine.analyze
    modulesWithLayers,  \* analyze's local: the modules after layer assignment
    result,     \* the AnalysisResult returned by analyze
    lang,       \* analyzers: the language of the analyzed project
    files,      \* analyzers: the files found under the root, in walk order
    analyzed,   \* analyzers: analyzeDirectory has returned
    out,        \* analyzers: the Module[] returned by analyzeDirectory
    registry,   \* analyzers: this.modules of the analyzer, in insertion order
    unreadable, \* analyzers: the directories whose listing fails
    rejected,   \* analyzers: the last call of analyzeDirectory or lint threw
    sanitizer,  \* kotlin: the loop of sanitizeLinesForParsing, character by character
    editor      \* vscode extension: workspace, lintWorkspace runs, diagnosticCollection

vars == <<phase, config, layerMap, modules, modulesWithLayers, result,
          lang, files, analyzed, out, registry, unreadable, rejected, sanitizer, editor>>

\* No sanitizer loop is running, the extension is not active
NoSanitizer == [content |-> <<>>]

NoEditor == [active |-> FALSE]

ToolsIdle == sanitizer = NoSanitizer /\ editor = NoEditor

-----------------------------------------------------------------------------
(* Strings as sequences of characters.                                     *)

LowerLetters == {"a","b","c","d","e","f","g","h","i","j","k","l","m",
                 "n","o","p","q","r","s","t","u","v","w","x","y","z"}

UpperLetters == {"A","B","C","D","E","F","G","H","I","J","K","L","M",
                 "N","O","P","Q","R","S","T","U","V","W","X","Y","Z"}

Digits == {"0","1","2","3","4","5","6","7","8","9"}

\* \w of a JavaScript regular expression
WordChars == LowerLetters \cup UpperLetters \cup Digits \cup {"_"}

IsWordChar(c) == c \in WordChars

\* \s of a JavaScript regular expression
SpaceChars == {" ", "\t", "\r", "\n"}

IsSpace(c) == c \in SpaceChars

StartsWith(s, p) == Len(p) <= Len(s) /\ SubSeq(s, 1, Len(p)) = p

EndsWith(s, p) == Len(p) <= Len(s) /\ SubSeq(s, Len(s) - Len(p) + 1, Len(s)) = p

Includes(s, p) == \E i \in 1..(Len(s) - Len(p) + 1) : SubSeq(s, i, i + Len(p) - 1) = p

Drop(s, n) == SubSeq(s, n + 1, Len(s))

RemoveChars(s, cs) == SelectSeq(s, LAMBDA c : c \notin cs)

CountChar(s, ch) == Len(SelectSeq(s, LAMBDA c : c = ch))

\* value.replace(/\\/g, '/')
NormalizeSlashes(s) == [i \in 1..Len(s) |-> IF s[i] = "\\" THEN "/" ELSE s[i]]

RECURSIVE Flatten(_)
Flatten(ss) == IF ss = <<>> THEN <<>> ELSE Head(ss) \o Flatten(Tail(ss))


SeqIndexOf(s, x) == IF \E i \in 1..Len(s) : s[i] = x
                    THEN CHOOSE i \in 1..Len(s) : s[i] = x /\ \A j \in 1..(i - 1) : s[j] # x
                    ELSE 0

-----------------------------------------------------------------------------
(* RuleEngine: glob matching and layer assignment.                         *)

NoLayer == ""

\* Number.MAX_SAFE_INTEGER, the initial selectedOrder (the largest integer of
\* the model checker stands for it; it is only ever compared with positions)
MaxSafeInteger == 2147483647

\* layerDef.precedence ?? -1; an omitted precedence is the empty sequence
PrecedenceOf(layerDef) ==
    IF layerDef.precedence = <<>> THEN -1 ELSE layerDef.precedence[1]

getPatternSpecificity(pattern) == Len(RemoveChars(pattern, {"*", "?"}))

\* The fallback of matchGlob turns the pattern into a regular expression:
\* "**" -> ".*", "*" -> "[^/]*", "?" -> "."; every other character is copied
\* unescaped, so "." is the regex "any character" and "(" and ")" delimit a
\* group, which consumes nothing by itself.
RECURSIVE GlobRegexTokens(_)
GlobRegexTokens(p) ==
    IF p = <<>> THEN <<>>
    ELSE IF StartsWith(p, <<"*", "*">>) THEN <<"ANY">> \o GlobRegexTokens(Drop(p, 2))
    ELSE IF Head(p) = "*" THEN <<"SEG">> \o GlobRegexTokens(Tail(p))
    ELSE IF Head(p) \in {"?", "."} THEN <<"ONE">> \o GlobRegexTokens(Tail(p))
    ELSE IF Head(p) \in {"(", ")"} THEN <<"GRP">> \o GlobRegexTokens(Tail(p))
    ELSE <<Head(p)>> \o GlobRegexTokens(Tail(p))

\* new RegExp('^' + regexPattern + '$').test(path)
RECURSIVE RegexTest(_, _)
RegexTest(toks, s) ==
    IF toks = <<>> THEN s = <<>>
    ELSE LET t == Head(toks) IN
         CASE t = "ANY" -> \E k \in 0..Len(s) : RegexTest(Tail(toks), Drop(s, k))
           [] t = "SEG" -> \E k \in 0..Len(s) :
                              /\ \A i \in 1..k : s[i] # "/"
                              /\ RegexTest(Tail(toks), Drop(s, k))
           [] t = "ONE" -> s # <<>> /\ RegexTest(Tail(toks), Tail(s))
           [] t = "GRP" -> RegexTest(Tail(toks), s)
           [] OTHER -> s # <<>> /\ Head(s) = t /\ RegexTest(Tail(toks), Tail(s))

matchGlob(path, pattern) ==
    LET n == Len(pattern)
        dstar == <<"*", "*">>
        \* /^\*\*\/([^/]+)\/\*\*$/
        match1 == /\ n >= 7
                  /\ StartsWith(pattern, dstar \o <<"/">>)
                  /\ EndsWith(pattern, <<"/">> \o dstar)
                  /\ "/" \notin {pattern[i] : i \in 4..(n - 3)}
        folder == SubSeq(pattern, 4, n - 3)
        \* /^([^*]+)\/\*\*$/
        match2 == /\ n >= 4
                  /\ EndsWith(pattern, <<"/">> \o dstar)
                  /\ "*" \notin {pattern[i] : i \in 1..(n - 3)}
        prefix == SubSeq(pattern, 1, n - 3)
        \* /^\*\*\/([^/]+)$/
        match3 == /\ n >= 4
                  /\ StartsWith(pattern, dstar \o <<"/">>)
                  /\ "/" \notin {pattern[i] : i \in 4..n}
        suffix == SubSeq(pattern, 4, n)
    IN  IF match1
        THEN Includes(path, <<"/">> \o folder \o <<"/">>) \/ StartsWith(path, folder \o <<"/">>)
        ELSE IF match2
        THEN StartsWith(path, prefix \o <<"/">>)
        ELSE IF match3
        THEN EndsWith(path, <<"/">> \o suffix) \/ path = suffix
        ELSE RegexTest(GlobRegexTokens(pattern), path)

\* A tie on precedence and specificity that the later definition wins
SelectLayerStep_LaterWinsTies(sel, layers, order, rawPath) ==
    LET layerDef == layers[order]
        modulePath == NormalizeSlashes(rawPath)
        pattern == NormalizeSlashes(layerDef.pattern)
        taken == [layer |-> order,
                  specificity |-> getPatternSpecificity(pattern),
                  order |-> order]
    IN  IF ~matchGlob(modulePath, pattern) THEN sel
        ELSE IF sel.layer = 0 THEN taken
        ELSE IF PrecedenceOf(layerDef) > PrecedenceOf(layers[sel.layer]) THEN taken
        ELSE IF /\ PrecedenceOf(layerDef) = PrecedenceOf(layers[sel.layer])
                /\ taken.specificity >= sel.specificity
        THEN taken
        ELSE sel

\* Variant: among definitions of equal precedence the first match is kept,
\* whatever the specificity of a later one
SelectLayerStep_FirstMatchWins(sel, layers, order, rawPath) ==
    LET layerDef == layers[order]
        modulePath == NormalizeSlashes(rawPath)
        pattern == NormalizeSlashes(layerDef.pattern)
        taken == [layer |-> order,
                  specificity |-> getPatternSpecificity(pattern),
                  order |-> order]
    IN  IF ~matchGlob(modulePath, pattern) THEN sel
        ELSE IF sel.layer = 0 THEN taken
        ELSE IF PrecedenceOf(layerDef) > PrecedenceOf(layers[sel.layer]) THEN taken
        ELSE sel

\* One iteration of the loop over config.layers.entries(); sel.layer = 0 is
\* selectedLayer = null, order is the 1-based position in config.layers.
SelectLayerStep(sel, layers, order, rawPath) ==
    LET layerDef == layers[order]
        modulePath == NormalizeSlashes(rawPath)
        pattern == NormalizeSlashes(layerDef.pattern)
        taken == [layer |-> order,
                  specificity |-> getPatternSpecificity(pattern),
                  order |-> order]
    IN  IF ~matchGlob(modulePath, pattern) THEN sel
        ELSE IF sel.layer = 0 THEN taken
        ELSE LET currentPrecedence == PrecedenceOf(layerDef)
                 selectedPrecedence == PrecedenceOf(layers[sel.layer])
             IN  IF currentPrecedence > selectedPrecedence THEN taken
                 ELSE IF currentPrecedence = selectedPrecedence
                 THEN IF taken.specificity > sel.specificity THEN taken
                      ELSE IF taken.specificity = sel.specificity /\ order < sel.order
                      THEN taken
                      ELSE sel
                 ELSE sel

RECURSIVE SelectLayerFrom(_, _, _, _)
SelectLayerFrom(sel, layers, order, rawPath) ==
    IF order > Len(layers) THEN sel
    ELSE SelectLayerFrom(SelectLayerStep(sel, layers, order, rawPath), layers, order + 1, rawPath)

\* The definition selected for a module path (0: none matched)
selectedLayer(layers, rawPath) ==
    SelectLayerFrom([layer |-> 0, specificity |-> -1, order |-> MaxSafeInteger],
                    layers, 1, rawPath).layer

\* Variant: a module that matches no pattern falls into the first layer
assignLayersToModules_DefaultLayer(layers, mods) ==
    [i \in 1..Len(mods) |->
        LET sel == selectedLayer(layers, mods[i].path)
        IN  IF sel # 0 THEN [mods[i] EXCEPT !.layer = layers[sel].name]
            ELSE IF Len(layers) > 0 THEN [mods[i] EXCEPT !.layer = layers[1].name]
            ELSE mods[i]]

assignLayersToModules(layers, mods) ==
    [i \in 1..Len(mods) |->
        LET sel == selectedLayer(layers, mods[i].path)
        IN  IF sel # 0 THEN [mods[i] EXCEPT !.layer = layers[sel].name] ELSE mods[i]]


-----------------------------------------------------------------------------
(* RuleEngine: the checks.                                                 *)

\* The constructor: layerMap.set(layer.name, layer) for each layer in order,
\* so a name maps to the last definition that carries it.
BuildLayerMap(layers) ==
    [n \in {layers[i].name : i \in 1..Len(layers)} |->
        CHOOSE i \in 1..Len(layers) :
            /\ layers[i].name = n
            /\ \A j \in (i + 1)..Len(layers) : layers[j].name # n]

\* A message template with the layer names and the strings put into it
Message(text, layers, strs) == [text |-> text, layers |-> layers, strs |-> strs]

Violation(ruleId, severity, message, filePath, line) ==
    [ruleId |-> ruleId, severity |-> severity, message |-> message,
     filePath |-> filePath, line |-> line]

\* Variant: the isExternal flag is not looked at
checkUnresolvedImports_IgnoringExternal(mods) ==
    Flatten([i \in 1..Len(mods) |->
        LET reported == SelectSeq(mods[i].dependencies, LAMBDA dep : dep.isUnresolved)
        IN  [j \in 1..Len(reported) |->
                Violation("unresolved-import", "info",
                          Message("Unresolved internal import", <<>>, <<reported[j].to>>),
                          mods[i].path, reported[j].importLine)]])

checkUnresolvedImports(mods) ==
    Flatten([i \in 1..Len(mods) |->
        LET reported == SelectSeq(mods[i].dependencies,
                                  LAMBDA dep : ~(dep.isExternal \/ ~dep.isUnresolved))
        IN  [j \in 1..Len(reported) |->
                Violation("unresolved-import", "info",
                          Message("Unresolved internal import", <<>>, <<reported[j].to>>),
                          mods[i].path, reported[j].importLine)]])

\* new Map(modules.map(m => [m.path, m])).get(p): the last module with that
\* path, 0 when there is none
ModuleMapGet(mods, p) ==
    IF \E i \in 1..Len(mods) : mods[i].path = p
    THEN CHOOSE i \in 1..Len(mods) :
            mods[i].path = p /\ \A j \in (i + 1)..Len(mods) : mods[j].path # p
    ELSE 0

\* Variant: the allow-list of the source layer is not looked at
BoundaryReported_IgnoringAllowList(layers, lmap, mods, module) ==
    IF module.layer = NoLayer \/ module.layer \notin DOMAIN lmap THEN <<>>
    ELSE LET bad(dep) ==
                 /\ ~(dep.isExternal \/ dep.isUnresolved)
                 /\ ModuleMapGet(mods, dep.to) # 0
                 /\ LET targetModule == mods[ModuleMapGet(mods, dep.to)]
                    IN  /\ targetModule.layer # NoLayer
                        /\ targetModule.layer # module.layer
         IN  SelectSeq(module.dependencies, bad)

\* The dependencies of one module that checkLayerBoundaries reports
BoundaryReported(layers, lmap, mods, module) ==
    IF module.layer = NoLayer \/ module.layer \notin DOMAIN lmap THEN <<>>
    ELSE LET layerDef == layers[lmap[module.layer]]
             bad(dep) ==
                 /\ ~(dep.isExternal \/ dep.isUnresolved)
                 /\ ModuleMapGet(mods, dep.to) # 0
                 /\ LET targetModule == mods[ModuleMapGet(mods, dep.to)]
                    IN  /\ targetModule.layer # NoLayer
                        /\ targetModule.layer # module.layer
                        /\ \A k \in 1..Len(layerDef.canDependOn) :
                              layerDef.canDependOn[k] # targetModule.layer
         IN  SelectSeq(module.dependencies, bad)

checkLayerBoundaries(layers, lmap, mods) ==
    Flatten([i \in 1..Len(mods) |->
        LET reported == BoundaryReported(layers, lmap, mods, mods[i])
        IN  [j \in 1..Len(reported) |->
                Violation("dependency-direction", "error",
                          Message("Layer cannot depend on layer",
                                  <<mods[i].layer, mods[ModuleMapGet(mods, reported[j].to)].layer>>,
                                  <<>>),
                          mods[i].path, reported[j].importLine)]])

\* graph.has(p) and graph.get(p): graph.set(module.path, deps.map(d => d.to))
GraphHas(mods, p) == \E i \in 1..Len(mods) : mods[i].path = p

GraphGet(mods, p) ==
    LET m == mods[ModuleMapGet(mods, p)]
    IN  [j \in 1..Len(m.dependencies) |-> m.dependencies[j].to]

\* graph.keys(): the distinct module paths in insertion order
GraphKeys(mods) ==
    LET first == SelectSeq([i \in 1..Len(mods) |-> i],
                           LAMBDA i : \A j \in 1..(i - 1) : mods[j].path # mods[i].path)
    IN  [k \in 1..Len(first) |-> mods[first[k]].path]

\* The closure dfs(node, path) and its loop over the neighbors; st holds the
\* captured visited, recursionStack and cycles.
RECURSIVE dfs(_, _, _, _)
RECURSIVE dfsNeighbors(_, _, _, _, _)
dfs(mods, node, path, st) ==
    LET entered == [visited |-> st.visited \cup {node},
                    recursionStack |-> st.recursionStack \cup {node},
                    cycles |-> st.cycles]
        pushed == Append(path, node)
        done == dfsNeighbors(mods, GraphGet(mods, node), 1, pushed, entered)
    IN  [done EXCEPT !.recursionStack = @ \ {node}]

dfsNeighbors(mods, neighbors, i, path, st) ==
    IF i > Len(neighbors) THEN st
    ELSE LET neighbor == neighbors[i]
             cycleStart == SeqIndexOf(path, neighbor)
             next ==
                 IF ~GraphHas(mods, neighbor) THEN st
                 ELSE IF neighbor \notin st.visited THEN dfs(mods, neighbor, path, st)
                 ELSE IF neighbor \in st.recursionStack /\ cycleStart # 0
                 THEN [st EXCEPT !.cycles =
                          Append(@, SubSeq(path, cycleStart, Len(path)) \o <<neighbor>>)]
                 ELSE st
         IN  dfsNeighbors(mods, neighbors, i + 1, path, next)

\* for (const node of graph.keys()) if (!visited.has(node)) dfs(node, [])
RECURSIVE dfsFromKeys(_, _, _, _)
dfsFromKeys(mods, keys, i, st) ==
    IF i > Len(keys) THEN st
    ELSE dfsFromKeys(mods, keys, i + 1,
                     IF keys[i] \in st.visited THEN st ELSE dfs(mods, keys[i], <<>>, st))

DetectedCycles(mods) ==
    dfsFromKeys(mods, GraphKeys(mods), 1,
                [visited |-> {}, recursionStack |-> {}, cycles |-> <<>>]).cycles

\* Variant: a module importing itself is not reported
checkCircularDependencies_NoSelfImports(mods) ==
    LET reported == SelectSeq(DetectedCycles(mods),
                              LAMBDA cycle : Len(cycle) > 2 /\ GraphHas(mods, cycle[1]))
    IN  [k \in 1..Len(reported) |->
            Violation("circular-dependency", "warning",
                      Message("Circular dependency detected", <<>>, reported[k]),
                      reported[k][1], 1)]

\* Variant: the violation is attached to the module that closes the cycle
checkCircularDependencies_AttachedToLast(mods) ==
    LET reported == SelectSeq(DetectedCycles(mods),
                              LAMBDA cycle : Len(cycle) > 1 /\ GraphHas(mods, cycle[1]))
    IN  [k \in 1..Len(reported) |->
            Violation("circular-dependency", "warning",
                      Message("Circular dependency detected", <<>>, reported[k]),
                      reported[k][Len(reported[k]) - 1], 1)]

checkCircularDependencies(mods) ==
    LET reported == SelectSeq(DetectedCycles(mods),
                              LAMBDA cycle : Len(cycle) > 1 /\ GraphHas(mods, cycle[1]))
    IN  [k \in 1..Len(reported) |->
            Violation("circular-dependency", "warning",
                      Message("Circular dependency detected", <<>>, reported[k]),
                      reported[k][1], 1)]


UpperSeq == <<"A","B","C","D","E","F","G","H","I","J","K","L","M",
              "N","O","P","Q","R","S","T","U","V","W","X","Y","Z">>

LowerSeq == <<"a","b","c","d","e","f","g","h","i","j","k","l","m",
              "n","o","p","q","r","s","t","u","v","w","x","y","z">>

\* String.prototype.toLowerCase
toLowerCase(s) ==
    [i \in 1..Len(s) |->
        IF s[i] \in UpperLetters THEN LowerSeq[SeqIndexOf(UpperSeq, s[i])] ELSE s[i]]

businessLogicKeywords ==
    <<<<"c","a","l","c","u","l","a","t","e">>,
      <<"c","o","m","p","u","t","e">>,
      <<"v","a","l","i","d","a","t","e">>,
      <<"p","r","o","c","e","s","s">>,
      <<"t","r","a","n","s","f","o","r","m">>,
      <<"b","u","s","i","n","e","s","s">>,
      <<"r","u","l","e">>,
      <<"l","o","g","i","c">>>>

checkBusinessLogicPlacement(mods) ==
    Flatten([i \in 1..Len(mods) |->
        IF mods[i].layer \in {"presentation", "view", "ui"}
        THEN LET flagged == SelectSeq(mods[i].exports, LAMBDA exportName :
                     /\ \E k \in 1..Len(businessLogicKeywords) :
                           Includes(toLowerCase(exportName), businessLogicKeywords[k])
                     /\ exportName # <<"d","e","f","a","u","l","t">>)
             IN  [j \in 1..Len(flagged) |->
                     Violation("business-logic-placement", "warning",
                               Message("Possible business logic detected",
                                       <<mods[i].layer>>, <<flagged[j]>>),
                               mods[i].path, 1)]
        ELSE <<>>])

\* The violations checkKotlinArchitectureAntiPatterns pushes for one
\* dependency of one module, in the order of its three if-blocks.
KotlinAntiPatternsOfDep(module, dep) ==
    LET lowerPath == toLowerCase(NormalizeSlashes(module.path))
        importStatement == toLowerCase(dep.importStatement)
        dependencyPath == toLowerCase(NormalizeSlashes(dep.to))
        isPresentationModule ==
            \/ module.layer \in {"presentation", "view", "ui"}
            \/ Includes(lowerPath, <<"/","u","i","/">>)
            \/ Includes(lowerPath, <<"/","v","i","e","w","/">>)
            \/ Includes(lowerPath, <<"/","v","i","e","w","s","/">>)
            \/ EndsWith(lowerPath, <<"a","c","t","i","v","i","t","y",".","k","t">>)
            \/ EndsWith(lowerPath, <<"f","r","a","g","m","e","n","t",".","k","t">>)
            \/ EndsWith(lowerPath, <<"s","c","r","e","e","n",".","k","t">>)
        isViewModelModule ==
            \/ module.layer = "viewmodel"
            \/ Includes(lowerPath, <<"/","v","i","e","w","m","o","d","e","l","/">>)
            \/ Includes(lowerPath, <<"/","v","i","e","w","m","o","d","e","l","s","/">>)
        isDomainModule ==
            \/ module.layer = "domain"
            \/ Includes(lowerPath, <<"/","d","o","m","a","i","n","/">>)
        importsDataLayerDirectly ==
            \/ Includes(importStatement, <<".","d","a","t","a",".">>)
            \/ Includes(importStatement, <<".","r","e","p","o","s","i","t","o","r","y",".">>)
            \/ Includes(importStatement, <<".","r","e","p","o","s","i","t","o","r","i","e","s",".">>)
            \/ Includes(importStatement, <<".","d","a","o",".">>)
            \/ Includes(dependencyPath, <<"/","d","a","t","a","/">>)
            \/ Includes(dependencyPath, <<"/","r","e","p","o","s","i","t","o","r","y","/">>)
            \/ Includes(dependencyPath, <<"/","r","e","p","o","s","i","t","o","r","i","e","s","/">>)
            \/ Includes(dependencyPath, <<"/","d","a","o","/">>)
        importsNetworkOrDbFramework ==
            \/ Includes(importStatement, <<"r","e","t","r","o","f","i","t","2",".">>)
            \/ Includes(importStatement, <<"o","k","h","t","t","p","3",".">>)
            \/ Includes(importStatement, <<"i","o",".","k","t","o","r",".">>)
            \/ Includes(importStatement, <<"a","n","d","r","o","i","d","x",".","r","o","o","m",".">>)
            \/ Includes(importStatement, <<"j","a","v","a",".","s","q","l",".">>)
            \/ Includes(importStatement, <<"j","a","v","a","x",".","s","q","l",".">>)
        dependsOnUiModule ==
            \/ Includes(dependencyPath, <<"/","u","i","/">>)
            \/ Includes(dependencyPath, <<"/","v","i","e","w","/">>)
            \/ Includes(dependencyPath, <<"/","v","i","e","w","s","/">>)
            \/ Includes(importStatement, <<".","u","i",".">>)
            \/ Includes(importStatement, <<".","v","i","e","w",".">>)
            \/ Includes(importStatement, <<".","v","i","e","w","s",".">>)
        importsFrameworkLayer ==
            \/ Includes(importStatement, <<"a","n","d","r","o","i","d",".">>)
            \/ Includes(importStatement, <<"a","n","d","r","o","i","d","x",".">>)
            \/ Includes(importStatement, <<"r","e","t","r","o","f","i","t","2",".">>)
            \/ Includes(importStatement, <<"o","k","h","t","t","p","3",".">>)
            \/ Includes(importStatement, <<"i","o",".","k","t","o","r",".">>)
            \/ Includes(importStatement, <<"a","n","d","r","o","i","d","x",".","r","o","o","m",".">>)
        hit(message) == <<Violation("kotlin-architecture-anti-pattern", "warning",
                                    Message(message, <<>>, <<>>),
                                    module.path, dep.importLine)>>
    IN  (IF isPresentationModule /\ (importsDataLayerDirectly \/ importsNetworkOrDbFramework)
         THEN hit("Kotlin UI/presentation module imports data-access or infrastructure concerns directly.")
         ELSE <<>>)
        \o (IF isViewModelModule /\ dependsOnUiModule
            THEN hit("Kotlin ViewModel appears to depend on UI-layer types.")
            ELSE <<>>)
        \o (IF isDomainModule /\ importsFrameworkLayer
            THEN hit("Kotlin domain module imports framework/infrastructure APIs directly.")
            ELSE <<>>)

checkKotlinArchitectureAntiPatterns(mods) ==
    Flatten([i \in 1..Len(mods) |->
        Flatten([j \in 1..Len(mods[i].dependencies) |->
            KotlinAntiPatternsOfDep(mods[i], mods[i].dependencies[j])])])

\* rules?.<flag> !== false; a flag is "true", "false" or "undefined" (omitted)
RuleEnabled(flag) == flag # "false"

RECURSIVE SumSeq(_)
SumSeq(ns) == IF ns = <<>> THEN 0 ELSE Head(ns) + SumSeq(Tail(ns))

\* analyze running the circular-dependency check whatever the flag says
analyze_CyclesAlways(cfg, lmap, mods, withLayers) ==
        [violations |->
            checkUnresolvedImports(withLayers)
            \o (IF RuleEnabled(cfg.rules.enforceLayerBoundaries)
                THEN checkLayerBoundaries(cfg.layers, lmap, withLayers) ELSE <<>>)
            \o checkCircularDependencies(withLayers)
            \o (IF RuleEnabled(cfg.rules.businessLogicInDomain)
                THEN checkBusinessLogicPlacement(withLayers) ELSE <<>>)
            \o (IF cfg.language = "kotlin"
                THEN checkKotlinArchitectureAntiPatterns(withLayers) ELSE <<>>),
         moduleCount |-> Len(mods),
         dependencyCount |-> SumSeq([i \in 1..Len(mods) |-> Len(mods[i].dependencies)])]

\* Variant: a violation equal to an earlier one of the list is dropped
analyze_Deduplicated(cfg, lmap, mods, withLayers) ==
    LET all == checkUnresolvedImports(withLayers)
               \o (IF RuleEnabled(cfg.rules.enforceLayerBoundaries)
                   THEN checkLayerBoundaries(cfg.layers, lmap, withLayers) ELSE <<>>)
               \o (IF RuleEnabled(cfg.rules.preventCircularDependencies)
                   THEN checkCircularDependencies(withLayers) ELSE <<>>)
               \o (IF RuleEnabled(cfg.rules.businessLogicInDomain)
                   THEN checkBusinessLogicPlacement(withLayers) ELSE <<>>)
               \o (IF cfg.language = "kotlin"
                   THEN checkKotlinArchitectureAntiPatterns(withLayers) ELSE <<>>)
        kept == SelectSeq([k \in 1..Len(all) |-> k], LAMBDA k : \A j \in 1..(k - 1) : all[j] # all[k])
    IN  [violations |-> [n \in 1..Len(kept) |-> all[kept[n]]],
         moduleCount |-> Len(mods),
         dependencyCount |-> SumSeq([i \in 1..Len(mods) |-> Len(mods[i].dependencies)])]

\* analyze, given its local modulesWithLayers = assignLayersToModules(modules)
analyze(cfg, lmap, mods, withLayers) ==
        [violations |->
            checkUnresolvedImports(withLayers)
            \o (IF RuleEnabled(cfg.rules.enforceLayerBoundaries)
                THEN checkLayerBoundaries(cfg.layers, lmap, withLayers) ELSE <<>>)
            \o (IF RuleEnabled(cfg.rules.preventCircularDependencies)
                THEN checkCircularDependencies(withLayers) ELSE <<>>)
            \o (IF RuleEnabled(cfg.rules.businessLogicInDomain)
                THEN checkBusinessLogicPlacement(withLayers) ELSE <<>>)
            \o (IF cfg.language = "kotlin"
                THEN checkKotlinArchitectureAntiPatterns(withLayers) ELSE <<>>),
         moduleCount |-> Len(mods),
         dependencyCount |-> SumSeq([i \in 1..Len(mods) |-> Len(mods[i].dependencies)])]


-----------------------------------------------------------------------------
(* The inputs of the rule engine.                                          *)

MaxDeps == 3      \* dependencies of a module list, all modules together
MaxLayers == 3    \* entries of config.layers

PathA == <<"v","/","a">>
PathB == <<"d","/","b">>
PathC == <<"x","/","c">>
PathDeep == <<"d","/","v","/","b">>

Dep(to, line, stmt, ext, unres) ==
    [to |-> to, importLine |-> line, importStatement |-> stmt,
     isExternal |-> ext, isUnresolved |-> unres]

\* The dependencies a module of a generated graph may carry: resolved imports
\* of the three modules, an unresolved import, an import flagged external
\* although its target names a module, and one with both flags set.
DepKinds ==
    { Dep(PathA, 1, <<"i","m","p","o","r","t"," ","a">>, FALSE, FALSE),
      Dep(PathB, 2, <<"i","m","p","o","r","t"," ","p",".","d","a","t","a",".","B">>, FALSE, FALSE),
      Dep(PathC, 3, <<"i","m","p","o","r","t"," ","c">>, FALSE, FALSE),
      Dep(<<"m">>, 2, <<"i","m","p","o","r","t"," ","m">>, FALSE, TRUE),
      Dep(PathB, 3, <<"i","m","p","o","r","t"," ","b">>, TRUE, FALSE),
      Dep(<<"m">>, 2, <<"i","m","p","o","r","t"," ","m">>, TRUE, TRUE) }

Module(path, deps, exports) ==
    [path |-> path, layer |-> NoLayer, exports |-> exports,
     dependencies |-> [j \in 1..Len(deps) |->
         [from |-> path, to |-> deps[j].to, importLine |-> deps[j].importLine,
          importStatement |-> deps[j].importStatement,
          isExternal |-> deps[j].isExternal, isUnresolved |-> deps[j].isUnresolved]]]

\* How at most MaxDeps dependencies are spread over the three modules
DepCounts ==
    { t \in (0..MaxDeps) \X (0..MaxDeps) \X (0..MaxDeps) : t[1] + t[2] + t[3] <= MaxDeps }

\* Three modules carrying the dependencies da, db and dc
GraphModules(da, db, dc) ==
    << Module(PathA, da, <<<<"R","u","l","e">>>>),
       Module(PathB, db, <<>>),
       Module(PathC, dc, <<<<"c","a","l","c">>>>) >>

LayerDef(name, pattern, canDependOn, precedence) ==
    [name |-> name, pattern |-> pattern, canDependOn |-> canDependOn,
     precedence |-> precedence]

Rules(enforce, prevent, business) ==
    [enforceLayerBoundaries |-> enforce, preventCircularDependencies |-> prevent,
     businessLogicInDomain |-> business]

GraphLayers ==
    << LayerDef("view", <<"*","*","/","v","/","*","*">>, <<>>, <<>>),
       LayerDef("data", <<"d","/","*","*">>, <<"view">>, <<>>) >>

\* The configurations under which the dependency graphs are varied
GraphConfigs ==
    { [language |-> "typescript", layers |-> GraphLayers,
       rules |-> Rules("true", "undefined", "true")],
      [language |-> "kotlin", layers |-> GraphLayers,
       rules |-> Rules("false", "false", "false")] }

\* The layer definitions config.layers is drawn from: the three fast-path
\* pattern shapes and the regex fallback, with and without precedence, two
\* pairs that tie on precedence and specificity, and a layer name defined twice.
LayerDefs ==
    { LayerDef("view", <<"*","*","/","v","/","*","*">>, <<"domain">>, <<>>),
      LayerDef("data", <<"d","/","*","*">>, <<>>, <<>>),
      LayerDef("domain", <<"*","*","/","b">>, <<"data">>, <<10>>),
      LayerDef("ui", <<"*","/","*">>, <<>>, <<1>>),
      LayerDef("data", <<"?","/","v","/","*">>, <<"view">>, <<>>),
      LayerDef("view", <<"*","*">>, <<"data">>, <<10>>),
      LayerDef("domain", <<"d","/","v","/","b">>, <<"view", "ui">>, <<>>) }

LayerConfigs ==
    { [language |-> "typescript", layers |-> ls, rules |-> Rules("true", "true", "true")] :
        ls \in UNION { [1..n -> LayerDefs] : n \in 0..MaxLayers } }

\* The module list the layer lists are varied against: a cycle through three
\* modules, an import back, and an unresolved import.
LayerInputs ==
    { << Module(PathA, <<Dep(PathDeep, 1, <<"i","m","p","o","r","t"," ","b">>, FALSE, FALSE),
                         Dep(<<"m">>, 2, <<"i","m","p","o","r","t"," ","m">>, FALSE, TRUE)>>,
                <<<<"R","u","l","e">>>>),
         Module(PathDeep, <<Dep(PathC, 1, <<"i","m","p","o","r","t"," ","c">>, FALSE, FALSE),
                            Dep(PathA, 2, <<"i","m","p","o","r","t"," ","a">>, FALSE, FALSE)>>, <<>>),
         Module(PathC, <<Dep(PathA, 1, <<"i","m","p","o","r","t"," ","a">>, FALSE, FALSE)>>, <<>>) >> }

-----------------------------------------------------------------------------
(* The rule engine as a state machine.                                     *)

NoResult == [violations |-> <<>>, moduleCount |-> -1, dependencyCount |-> -1]

AnalyzersIdle ==
    /\ lang = "none" /\ files = <<>> /\ analyzed = FALSE /\ out = <<>>
    /\ registry = <<>> /\ unreadable = {} /\ rejected = FALSE

\* new RuleEngine(config)
Init ==
    /\ config \in GraphConfigs \cup LayerConfigs
    /\ layerMap = BuildLayerMap(config.layers)
    /\ phase = "constructed"
    /\ modules = <<>>
    /\ modulesWithLayers = <<>>
    /\ result = NoResult
    /\ AnalyzersIdle
    /\ ToolsIdle

\* engine.analyze(mods)
AnalyzeModules(mods) ==
    /\ modules' = mods
    /\ modulesWithLayers' = assignLayersToModules(config.layers, mods)
    /\ result' = analyze(config, layerMap, mods, modulesWithLayers')
    /\ phase' = "analyzed"
    /\ UNCHANGED <<config, layerMap, lang, files, analyzed, out, registry, unreadable, rejected,
                   sanitizer, editor>>

\* The call of analyze: under a graph configuration on three modules with any
\* dependencies, under a layer configuration on the fixed module list
Analyze ==
    /\ phase = "constructed"
    /\ IF config \in GraphConfigs
       THEN \E n \in DepCounts :
                \E da \in [1..n[1] -> DepKinds], db \in [1..n[2] -> DepKinds],
                   dc \in [1..n[3] -> DepKinds] :
                    AnalyzeModules(GraphModules(da, db, dc))
       ELSE \E mods \in LayerInputs : AnalyzeModules(mods)

Next == Analyze

Spec == Init /\ [][Next]_vars


-----------------------------------------------------------------------------
(* Properties of the rule engine.                                          *)

Analyzed == phase = "analyzed"

ModuleIdx == 1..Len(modules)

ViolationsOf(ruleId) == SelectSeq(result.violations, LAMBDA v : v.ruleId = ruleId)

CountIn(seq, P(_)) == Cardinality({k \in 1..Len(seq) : P(seq[k])})

\* The positions in config.layers whose pattern matches a module path
Matching(layers, path) ==
    {i \in 1..Len(layers) :
        matchGlob(NormalizeSlashes(path), NormalizeSlashes(layers[i].pattern))}

\* The literal characters of a pattern: all but '*' and '?'
Specificity(pattern) == Cardinality({k \in 1..Len(pattern) : pattern[k] \notin {"*", "?"}})

SamePrecedence(layers, i, j) == PrecedenceOf(layers[i]) = PrecedenceOf(layers[j])

SameRank(layers, i, j) ==
    /\ SamePrecedence(layers, i, j)
    /\ Specificity(layers[i].pattern) = Specificity(layers[j].pattern)

\* Definition i comes before definition j in the strict order of the claim
Beats(layers, i, j) ==
    \/ PrecedenceOf(layers[i]) > PrecedenceOf(layers[j])
    \/ /\ SamePrecedence(layers, i, j)
       /\ Specificity(layers[i].pattern) > Specificity(layers[j].pattern)
    \/ SameRank(layers, i, j) /\ i < j

Reordered(layers, pi) == [k \in 1..Len(layers) |-> layers[pi[k]]]

\* C1: every module gets the layer of the matching definition that is
\* maximal under (higher precedence, then larger specificity, then earlier
\* position), no layer when nothing matches; and when a single matching
\* definition has the best precedence and specificity, every reordering of
\* config.layers assigns the same layer.
C1_LayerOfMaximalDefinition ==
    Analyzed =>
        \A m \in ModuleIdx :
            LET layers == config.layers
                M == Matching(layers, modules[m].path)
                got == modulesWithLayers[m].layer
            IN  /\ M = {} => got = NoLayer
                /\ M # {} =>
                      \E i \in M : /\ \A j \in M \ {i} : Beats(layers, i, j)
                                   /\ got = layers[i].name
                                   /\ (\A j \in M \ {i} : ~SameRank(layers, i, j)) =>
                                         \A pi \in Permutations(1..Len(layers)) :
                                            assignLayersToModules(Reordered(layers, pi),
                                                                  modules)[m].layer = got

\* C1 witness: a definition declared later wins over an earlier matching one
\* by precedence, and another module is decided by specificity.
C1_Witness ==
    /\ Analyzed
    /\ \E m \in ModuleIdx :
          LET M == Matching(config.layers, modules[m].path)
          IN  \E i, j \in M :
                 /\ i < j /\ \A k \in M \ {j} : Beats(config.layers, j, k)
                 /\ PrecedenceOf(config.layers[j]) > PrecedenceOf(config.layers[i])
                 /\ config.layers[i].name # config.layers[j].name
                 /\ modulesWithLayers[m].layer = config.layers[j].name
    /\ \E m \in ModuleIdx :
          LET M == Matching(config.layers, modules[m].path)
          IN  \E i, j \in M :
                 /\ i < j /\ \A k \in M \ {j} : Beats(config.layers, j, k)
                 /\ SamePrecedence(config.layers, i, j)
                 /\ config.layers[i].name # config.layers[j].name
                 /\ modulesWithLayers[m].layer = config.layers[j].name


\* The dependencies of the analyzed modules, as <<module, position>>
DepIdx == UNION {{<<i, j>> : j \in 1..Len(modules[i].dependencies)} : i \in ModuleIdx}

DepAt(ij) == modules[ij[1]].dependencies[ij[2]]

IsModulePath(p) == \E t \in ModuleIdx : modules[t].path = p

\* The layer assigned to the module with path p (module paths are distinct)
LayerOfPath(p) ==
    LET t == CHOOSE t \in ModuleIdx : modules[t].path = p IN modulesWithLayers[t].layer

\* The canDependOn list the engine holds for a layer name: that of the last
\* definition of config.layers carrying the name
AllowList(name) ==
    LET i == CHOOSE i \in 1..Len(config.layers) :
                /\ config.layers[i].name = name
                /\ \A j \in 1..Len(config.layers) : config.layers[j].name = name => j <= i
    IN  {config.layers[i].canDependOn[k] : k \in 1..Len(config.layers[i].canDependOn)}

LocalResolved(d) == ~d.isExternal /\ ~d.isUnresolved

\* The dependency breaks the direction rule
Offending(ij) ==
    LET d == DepAt(ij)
        src == modulesWithLayers[ij[1]].layer
    IN  /\ LocalResolved(d)
        /\ IsModulePath(d.to)
        /\ src # NoLayer
        /\ LayerOfPath(d.to) # NoLayer
        /\ LayerOfPath(d.to) # src
        /\ LayerOfPath(d.to) \notin AllowList(src)

DirectionKeyOfDep(ij) ==
    <<modules[ij[1]].path, DepAt(ij).importLine,
      modulesWithLayers[ij[1]].layer, LayerOfPath(DepAt(ij).to)>>

DirectionKeyOfViolation(v) == <<v.filePath, v.line, v.message.layers[1], v.message.layers[2]>>

\* C2: with enforceLayerBoundaries enabled, the 'dependency-direction'
\* violations are errors and correspond one to one (file, line, the two
\* layers) to the dependencies that are local-resolved, join two modules with
\* different layers, and whose target layer is not in the allow-list of the
\* source layer; no other dependency gets one.
C2_OneDirectionViolationPerOffendingDep ==
    (Analyzed /\ RuleEnabled(config.rules.enforceLayerBoundaries)) =>
        LET vs == ViolationsOf("dependency-direction")
            keys == {DirectionKeyOfViolation(vs[k]) : k \in 1..Len(vs)}
                    \cup {DirectionKeyOfDep(ij) : ij \in {x \in DepIdx : Offending(x)}}
        IN  /\ \A k \in 1..Len(vs) : vs[k].severity = "error"
            /\ \A key \in keys :
                  CountIn(vs, LAMBDA v : DirectionKeyOfViolation(v) = key)
                  = Cardinality({ij \in DepIdx : Offending(ij) /\ DirectionKeyOfDep(ij) = key})

\* C2 witness: an offending import is reported next to a resolved import
\* that the allow-list permits and is not reported.
C2_Witness ==
    /\ Analyzed /\ RuleEnabled(config.rules.enforceLayerBoundaries)
    /\ \E ij \in DepIdx : Offending(ij)
    /\ Len(ViolationsOf("dependency-direction")) >= 1
    /\ \E ij \in DepIdx :
          /\ LocalResolved(DepAt(ij)) /\ IsModulePath(DepAt(ij).to)
          /\ modulesWithLayers[ij[1]].layer # NoLayer
          /\ LayerOfPath(DepAt(ij).to) \in AllowList(modulesWithLayers[ij[1]].layer)
          /\ LayerOfPath(DepAt(ij).to) # modulesWithLayers[ij[1]].layer

\* The edges of the module graph: dependencies that target a module path
Edge(p, q) ==
    \E ij \in DepIdx : modules[ij[1]].path = p /\ DepAt(ij).to = q /\ IsModulePath(q)

ModulePaths == {modules[t].path : t \in ModuleIdx}

\* The closed walks p0 -> p1 -> ... -> p0 through at most all modules
ClosedWalks ==
    {w \in UNION {[1..n -> ModulePaths] : n \in 2..(Len(modules) + 1)} :
        /\ w[1] = w[Len(w)]
        /\ \A k \in 1..(Len(w) - 1) : Edge(w[k], w[k + 1])}

HasCycle == ClosedWalks # {}

Names(v, p) == \E k \in 1..Len(v.message.strs) : v.message.strs[k] = p

\* a, b, c form a simple cycle: each imports, among the modules, only the next
SimpleCycle(a, b, c) ==
    /\ a # b /\ b # c /\ a # c
    /\ \A q \in ModulePaths : (Edge(a, q) <=> q = b) /\ (Edge(b, q) <=> q = c)
                              /\ (Edge(c, q) <=> q = a)

\* C3: with preventCircularDependencies enabled, a 'circular-dependency'
\* warning is reported exactly when the module graph has a directed cycle
\* (a self-import included), and for a simple cycle through three modules some
\* reported cycle names all three.
C3_CycleReportedIffCyclic ==
    (Analyzed /\ RuleEnabled(config.rules.preventCircularDependencies)) =>
        LET vs == ViolationsOf("circular-dependency")
        IN  /\ HasCycle <=> Len(vs) >= 1
            /\ \A k \in 1..Len(vs) : vs[k].severity = "warning"
            /\ \A a, b, c \in ModulePaths :
                  SimpleCycle(a, b, c) =>
                      \E k \in 1..Len(vs) : Names(vs[k], a) /\ Names(vs[k], b) /\ Names(vs[k], c)

\* C3 witness: a simple cycle through the three modules has been reported.
C3_Witness ==
    /\ Analyzed /\ RuleEnabled(config.rules.preventCircularDependencies)
    /\ \E a, b, c \in ModulePaths : SimpleCycle(a, b, c)
    /\ Len(ViolationsOf("circular-dependency")) >= 1

Unlayered(m) == Matching(config.layers, modules[m].path) = {}

ReportedUnresolved(d) == d.isUnresolved /\ ~d.isExternal

\* C4: a module that matches no layer pattern has no layer, no
\* 'dependency-direction' violation is on its file, none comes from an import
\* that targets it, and yet each of its unresolved imports is reported and a
\* cycle through it makes the circular-dependency check report.
C4_UnlayeredModuleExcludedFromDirectionOnly ==
    Analyzed =>
        LET dd == ViolationsOf("dependency-direction")
            un == ViolationsOf("unresolved-import")
        IN  /\ \A m \in ModuleIdx : Unlayered(m) =>
                  /\ modulesWithLayers[m].layer = NoLayer
                  /\ \A k \in 1..Len(dd) : dd[k].filePath # modules[m].path
                  /\ CountIn(un, LAMBDA v : v.filePath = modules[m].path)
                     = Cardinality({ij \in DepIdx : ij[1] = m /\ ReportedUnresolved(DepAt(ij))})
                  /\ (/\ RuleEnabled(config.rules.preventCircularDependencies)
                      /\ \E w \in ClosedWalks : w[1] = modules[m].path)
                     => Len(ViolationsOf("circular-dependency")) >= 1
            \* the violations on a file and line are no more than the imports
            \* there whose target has a layer
            /\ \A s \in ModuleIdx : \A line \in {DepAt(ij).importLine : ij \in DepIdx} :
                  CountIn(dd, LAMBDA v : v.filePath = modules[s].path /\ v.line = line)
                  <= Cardinality({ij \in DepIdx :
                        /\ ij[1] = s /\ DepAt(ij).importLine = line
                        /\ \E t \in ModuleIdx : modules[t].path = DepAt(ij).to /\ ~Unlayered(t)})

\* C4 witness: an unlayered module is imported by a module with a layer and
\* has an unresolved import and a cycle through it, both reported.
C4_Witness ==
    /\ Analyzed /\ RuleEnabled(config.rules.enforceLayerBoundaries)
    /\ \E m \in ModuleIdx :
          /\ Unlayered(m)
          /\ \E ij \in DepIdx : /\ DepAt(ij).to = modules[m].path /\ LocalResolved(DepAt(ij))
                                /\ ~Unlayered(ij[1])
          /\ \E ij \in DepIdx : ij[1] = m /\ ReportedUnresolved(DepAt(ij))
          /\ \E k \in 1..Len(result.violations) :
                /\ result.violations[k].ruleId = "unresolved-import"
                /\ result.violations[k].filePath = modules[m].path
          /\ \E w \in ClosedWalks : w[1] = modules[m].path
          /\ Len(ViolationsOf("circular-dependency")) >= 1

UnresolvedKeyOfDep(ij) == <<modules[ij[1]].path, DepAt(ij).importLine, DepAt(ij).to>>

UnresolvedKeyOfViolation(v) == <<v.filePath, v.line, v.message.strs[1]>>

\* C6: the 'unresolved-import' violations are of severity info and
\* correspond one to one (file, line, target named) to the dependencies with
\* isUnresolved true and isExternal not true, whatever the layers and the
\* rule flags; external and local-resolved dependencies get none.
C6_OneInfoPerUnresolvedDep ==
    Analyzed =>
        LET vs == ViolationsOf("unresolved-import")
            keys == {UnresolvedKeyOfViolation(vs[k]) : k \in 1..Len(vs)}
                    \cup {UnresolvedKeyOfDep(ij) : ij \in DepIdx}
        IN  /\ \A k \in 1..Len(vs) : vs[k].severity = "info"
            /\ \A key \in keys :
                  CountIn(vs, LAMBDA v : UnresolvedKeyOfViolation(v) = key)
                  = Cardinality({ij \in DepIdx :
                        ReportedUnresolved(DepAt(ij)) /\ UnresolvedKeyOfDep(ij) = key})

\* C6 witness: an unresolved import of a module without a layer is reported
\* while an import flagged both external and unresolved, with the same
\* target, is not.
C6_Witness ==
    /\ Analyzed
    /\ \E ij \in DepIdx : Unlayered(ij[1]) /\ ReportedUnresolved(DepAt(ij))
    /\ \E ij \in DepIdx : DepAt(ij).isExternal /\ DepAt(ij).isUnresolved
    /\ \E ij \in DepIdx : DepAt(ij).isExternal /\ ~DepAt(ij).isUnresolved
    /\ Len(ViolationsOf("unresolved-import")) = 1


-----------------------------------------------------------------------------
(* The import-graph analyzers: string operations.                          *)

Min(S) == CHOOSE x \in S : \A y \in S : x <= y

Max(S) == CHOOSE x \in S : \A y \in S : y <= x

\* value.trim(), value.trimEnd()
Trim(s) ==
    LET keep == {i \in 1..Len(s) : ~IsSpace(s[i])}
    IN  IF keep = {} THEN <<>> ELSE SubSeq(s, Min(keep), Max(keep))

TrimEnd(s) ==
    LET keep == {i \in 1..Len(s) : ~IsSpace(s[i])}
    IN  IF keep = {} THEN <<>> ELSE SubSeq(s, 1, Max(keep))

\* The positions of s, in order
Indexes(s) == [i \in 1..Len(s) |-> i]

\* value.split(ch)
Split(s, ch) ==
    LET seps == SelectSeq(Indexes(s), LAMBDA i : s[i] = ch)
        from(k) == IF k = 1 THEN 1 ELSE seps[k - 1] + 1
        to(k) == IF k = Len(seps) + 1 THEN Len(s) ELSE seps[k] - 1
    IN  [k \in 1..(Len(seps) + 1) |-> SubSeq(s, from(k), to(k))]

\* parts.join(sep)
RECURSIVE Join(_, _)
Join(parts, sep) ==
    IF parts = <<>> THEN <<>>
    ELSE IF Len(parts) = 1 THEN parts[1]
    ELSE parts[1] \o sep \o Join(Tail(parts), sep)

\* parts.filter(Boolean)
NonEmpty(parts) == SelectSeq(parts, LAMBDA p : p # <<>>)

\* value.replace(/\s+/g, ' ')
CollapseSpaces(s) ==
    LET kept == SelectSeq(Indexes(s), LAMBDA i : ~IsSpace(s[i]) \/ i = 1 \/ ~IsSpace(s[i - 1]))
    IN  [k \in 1..Len(kept) |-> IF IsSpace(s[kept[k]]) THEN " " ELSE s[kept[k]]]

\* The length of the longest prefix of s whose characters all satisfy P
LeadingRun(s, chars) ==
    IF \A i \in 1..Len(s) : s[i] \in chars THEN Len(s)
    ELSE Min({i \in 1..Len(s) : s[i] \notin chars}) - 1

LeadingSpaces(s) == LeadingRun(s, SpaceChars)

\* part.split(/\s+as\s+/)[0]
SplitAsFirst(s) ==
    LET asAt(i) ==
            /\ IsSpace(s[i])
            /\ \E j \in i..Len(s) :
                  /\ \A k \in i..j : IsSpace(s[k])
                  /\ j + 3 <= Len(s)
                  /\ s[j + 1] = "a" /\ s[j + 2] = "s" /\ IsSpace(s[j + 3])
        starts == {i \in 1..Len(s) : asAt(i)}
    IN  IF starts = {} THEN s ELSE SubSeq(s, 1, Min(starts) - 1)

\* The capture of /\s+(.+)$/ applied at the start of rest: <<>> when it does
\* not match, <<capture>> when it does
AfterSpaces(rest) ==
    IF Len(rest) < 2 \/ ~IsSpace(rest[1]) THEN <<>>
    ELSE LET n == LeadingSpaces(rest)
         IN  IF n = Len(rest) THEN <<SubSeq(rest, Len(rest), Len(rest))>>
             ELSE <<Drop(rest, n)>>

IsIdentStart(c) == c \in LowerLetters \cup UpperLetters \cup {"_"}

\* [A-Za-z_][A-Za-z0-9_]* at the start of s: the length matched, 0 for none
LeadingIdent(s) == IF s # <<>> /\ IsIdentStart(s[1]) THEN LeadingRun(s, WordChars) ELSE 0

Dependency(from, to, line, stmt, ext, unres) ==
    [from |-> from, to |-> to, importLine |-> line, importStatement |-> stmt,
     isExternal |-> ext, isUnresolved |-> unres]

\* The last path segment and the directory segments of a relative path
BaseName(p) == LET parts == Split(p, "/") IN parts[Len(parts)]

DirNames(p) == LET parts == Split(p, "/") IN SubSeq(parts, 1, Len(parts) - 1)


-----------------------------------------------------------------------------
(* PythonImportGraphAnalyzer.                                              *)

\* A file of the tree under the root: its path relative to the root and its
\* content
File(path, content) == [path |-> path, content |-> content]

\* The walk keeps the .py files outside the skipped directories that are not
\* test files, in the order of the listing
PyFindSourceFiles(tree) ==
    SelectSeq(tree, LAMBDA f :
        /\ \A k \in 1..Len(DirNames(f.path)) :
              DirNames(f.path)[k] \notin {<<".","g","i","t">>, <<".","v","e","n","v">>, <<"v","e","n","v">>, <<"_","_","p","y","c","a","c","h","e","_","_">>,
                                          <<"b","u","i","l","d">>, <<"d","i","s","t">>, <<"n","o","d","e","_","m","o","d","u","l","e","s">>}
        /\ EndsWith(BaseName(f.path), <<".","p","y">>)
        /\ ~StartsWith(BaseName(f.path), <<"t","e","s","t","_">>)
        /\ ~EndsWith(BaseName(f.path), <<"_","t","e","s","t",".","p","y">>))

filePathToModuleName(relativePath) ==
    LET normalized == NormalizeSlashes(relativePath)
        stem == IF EndsWith(normalized, <<"/","_","_","i","n","i","t","_","_",".","p","y">>)
                THEN SubSeq(normalized, 1, Len(normalized) - 12)
                ELSE IF EndsWith(normalized, <<".","p","y">>)
                THEN SubSeq(normalized, 1, Len(normalized) - 3)
                ELSE normalized
    IN  Join(NonEmpty(Split(stem, "/")), <<".">>)

\* index.set(moduleName, relativePath) for each file in order: a module name
\* maps to the path of the last file that has it
PyBuildModuleIndex(srcFiles) ==
    [name \in {filePathToModuleName(srcFiles[i].path) : i \in 1..Len(srcFiles)} |->
        LET last == Max({i \in 1..Len(srcFiles) : filePathToModuleName(srcFiles[i].path) = name})
        IN  NormalizeSlashes(srcFiles[last].path)]

buildTopLevelPackages(moduleIndex) ==
    {Split(name, ".")[1] : name \in DOMAIN moduleIndex} \ {<<>>}

\* /^from\s+([.\w]+)\s+import/ at the start of a line: the module spec and
\* what follows the word import
FromHead(line) ==
    LET r1 == Drop(line, 4)
        n1 == LeadingSpaces(r1)
        r2 == Drop(r1, n1)
        n2 == LeadingRun(r2, WordChars \cup {"."})
        r3 == Drop(r2, n2)
        n3 == LeadingSpaces(r3)
        r4 == Drop(r3, n3)
    IN  IF /\ StartsWith(line, <<"f","r","o","m">>) /\ n1 >= 1 /\ n2 >= 1 /\ n3 >= 1
           /\ StartsWith(r4, <<"i","m","p","o","r","t">>)
        THEN [ok |-> TRUE, spec |-> SubSeq(r2, 1, n2), rest |-> Drop(r4, 6)]
        ELSE [ok |-> FALSE, spec |-> <<>>, rest |-> <<>>]

\* line.match(/^import\s+(.+)$/): <<>> or <<capture>>
PyImportMatch(line) ==
    IF StartsWith(line, <<"i","m","p","o","r","t">>) THEN AfterSpaces(Drop(line, 6)) ELSE <<>>

\* statement.match(/^from\s+([.\w]+)\s+import\s+(.+)$/): <<>> or
\* <<module spec, imported names>>
PyFromImportMatch(statement) ==
    LET head == FromHead(statement)
    IN  IF head.ok /\ AfterSpaces(head.rest) # <<>>
        THEN <<head.spec, AfterSpaces(head.rest)[1]>>
        ELSE <<>>

\* The while loop of readFromImportStatement; next is the index of the line
\* read next
RECURSIVE collectParenLines(_, _, _, _)
collectParenLines(lines, next, collected, parenDepth) ==
    IF parenDepth > 0 /\ next <= Len(lines)
    THEN LET nextLine == Trim(lines[next])
         IN  collectParenLines(lines, next + 1, Append(collected, nextLine),
                               parenDepth + CountChar(nextLine, "(") - CountChar(nextLine, ")"))
    ELSE collected

readFromImportStatement(lines, startLine) ==
    LET firstLine == Trim(lines[startLine])
        head == FromHead(firstLine)
        isFromImport == head.ok /\ (head.rest = <<>> \/ ~IsWordChar(head.rest[1]))
        startsParenImport ==
            /\ head.ok
            /\ LeadingSpaces(head.rest) < Len(head.rest)
            /\ head.rest[LeadingSpaces(head.rest) + 1] = "("
        collected == collectParenLines(lines, startLine + 1, <<firstLine>>,
                                       CountChar(firstLine, "(") - CountChar(firstLine, ")"))
    IN  IF ~isFromImport \/ ~startsParenImport
        THEN [statement |-> firstLine, consumedLines |-> 1, lineNumber |-> startLine]
        ELSE [statement |-> Trim(CollapseSpaces(Join(collected, <<" ">>))),
              consumedLines |-> Len(collected), lineNumber |-> startLine]

parseImportedNames(importSpec) ==
    LET trimmed == Trim(importSpec)
        \* replace(/^\(\s*/, '')
        opened == IF trimmed # <<>> /\ trimmed[1] = "("
                  THEN Drop(Drop(trimmed, 1), LeadingSpaces(Drop(trimmed, 1)))
                  ELSE trimmed
        \* replace(/\s*\)\s*$/, '')
        tail == TrimEnd(opened)
        normalized == IF tail # <<>> /\ tail[Len(tail)] = ")"
                      THEN TrimEnd(SubSeq(tail, 1, Len(tail) - 1))
                      ELSE opened
        split == Split(normalized, ",")
        parts == NonEmpty([k \in 1..Len(split) |-> Trim(split[k])])
        \* part.replace(/,$/, '')
        noComma(part) == IF part[Len(part)] = "," THEN SubSeq(part, 1, Len(part) - 1) ELSE part
    IN  NonEmpty([k \in 1..Len(parts) |-> Trim(SplitAsFirst(noComma(parts[k])))])

PyResolveDependency(fromPath, line, importStatement, moduleName, moduleIndex, topLevelPackages) ==
    IF moduleName \in DOMAIN moduleIndex
    THEN Dependency(fromPath, moduleIndex[moduleName], line, importStatement, FALSE, FALSE)
    ELSE LET rootPackage == Split(moduleName, ".")[1]
             looksInternal == rootPackage \in topLevelPackages
         IN  Dependency(fromPath, moduleName, line, importStatement, ~looksInternal, looksInternal)

\* resolveModuleSpec without the failure on an ascent beyond the package
\* path: the ascent stops at the root
resolveModuleSpec_ClampedAscent(moduleSpec, fromModule) ==
    IF ~StartsWith(moduleSpec, <<".">>) THEN moduleSpec
    ELSE LET dots == LeadingRun(moduleSpec, {"."})
             suffix == Drop(moduleSpec, dots)
             moduleParts == NonEmpty(Split(fromModule, "."))
             packageParts == SubSeq(moduleParts, 1, Max({0, Len(moduleParts) - 1}))
             parentLevels == Max({0, dots - 1})
             baseParts == SubSeq(packageParts, 1, Max({0, Len(packageParts) - parentLevels}))
             suffixParts == IF suffix # <<>> THEN NonEmpty(Split(suffix, ".")) ELSE <<>>
         IN  Join(baseParts \o suffixParts, <<".">>)

\* The result null is the empty string, which the code cannot return otherwise
resolveModuleSpec(moduleSpec, fromModule) ==
    IF ~StartsWith(moduleSpec, <<".">>) THEN moduleSpec
    ELSE LET dots == LeadingRun(moduleSpec, {"."})
             suffix == Drop(moduleSpec, dots)
             moduleParts == NonEmpty(Split(fromModule, "."))
             \* both branches of the conditional on '.__init__' are slice(0, -1)
             packageParts == SubSeq(moduleParts, 1, Max({0, Len(moduleParts) - 1}))
             parentLevels == Max({0, dots - 1})
             baseParts == SubSeq(packageParts, 1, Len(packageParts) - parentLevels)
             suffixParts == IF suffix # <<>> THEN NonEmpty(Split(suffix, ".")) ELSE <<>>
         IN  IF parentLevels > Len(packageParts) THEN <<>>
             ELSE Join(baseParts \o suffixParts, <<".">>)


\* The dependencies pushed for one from-import statement
PyFromImportDeps(fit, fromPath, fromModule, moduleIndex, topLevelPackages) ==
    LET fromImportMatch == PyFromImportMatch(fit.statement)
        moduleSpec == fromImportMatch[1]
        importedNames == parseImportedNames(fromImportMatch[2])
        resolvedBase == resolveModuleSpec(moduleSpec, fromModule)
        childModule(name) == resolvedBase \o <<".">> \o name
        children == SelectSeq(importedNames, LAMBDA name : childModule(name) \in DOMAIN moduleIndex)
        resolve(moduleName) ==
            PyResolveDependency(fromPath, fit.lineNumber, fit.statement, moduleName,
                                moduleIndex, topLevelPackages)
    IN  IF fromImportMatch = <<>> THEN <<>>
        ELSE IF resolvedBase = <<>>
        THEN <<Dependency(fromPath, moduleSpec, fit.lineNumber, fit.statement, TRUE, FALSE)>>
        ELSE IF importedNames = <<<<"*">>>> THEN <<resolve(resolvedBase)>>
        ELSE IF children # <<>>
        THEN [k \in 1..Len(children) |-> resolve(childModule(children[k]))]
        ELSE <<resolve(resolvedBase)>>

\* The dependencies pushed for one import statement
PyImportDeps(line, lineNumber, fromPath, moduleIndex, topLevelPackages) ==
    LET split == Split(PyImportMatch(line)[1], ",")
        imported == NonEmpty([k \in 1..Len(split) |-> Trim(SplitAsFirst(Trim(split[k])))])
    IN  [k \in 1..Len(imported) |->
            PyResolveDependency(fromPath, lineNumber, line, imported[k],
                                moduleIndex, topLevelPackages)]

\* The loop of parseImports from line i on
RECURSIVE PyParseImportsFrom(_, _, _, _, _, _)
PyParseImportsFrom(lines, i, fromPath, fromModule, moduleIndex, topLevelPackages) ==
    IF i > Len(lines) THEN <<>>
    ELSE LET line == Trim(lines[i])
             fit == readFromImportStatement(lines, i)
         IN  IF line = <<>> \/ line[1] = "#"
             THEN PyParseImportsFrom(lines, i + 1, fromPath, fromModule, moduleIndex,
                                     topLevelPackages)
             ELSE IF PyImportMatch(line) # <<>>
             THEN PyImportDeps(line, i, fromPath, moduleIndex, topLevelPackages)
                  \o PyParseImportsFrom(lines, i + 1, fromPath, fromModule, moduleIndex,
                                        topLevelPackages)
             ELSE PyFromImportDeps(fit, fromPath, fromModule, moduleIndex, topLevelPackages)
                  \o PyParseImportsFrom(lines, i + fit.consumedLines, fromPath, fromModule,
                                        moduleIndex, topLevelPackages)

PyParseImports(content, fromPath, fromModule, moduleIndex, topLevelPackages) ==
    PyParseImportsFrom(Split(content, "\n"), 1, fromPath, fromModule, moduleIndex,
                       topLevelPackages)

\* A declaration `keyword name` at the start of a line, after white space:
\* the name and what follows it
Declared(line, keyword) ==
    LET r1 == Drop(line, LeadingSpaces(line))
        r2 == Drop(r1, Len(keyword))
        r3 == Drop(r2, LeadingSpaces(r2))
        n == LeadingIdent(r3)
    IN  IF StartsWith(r1, keyword) /\ LeadingSpaces(r2) >= 1 /\ n >= 1
        THEN [ok |-> TRUE, name |-> SubSeq(r3, 1, n), rest |-> Drop(r3, n)]
        ELSE [ok |-> FALSE, name |-> <<>>, rest |-> <<>>]

\* The names the two patterns of extractExports capture, the functions
\* first and the classes after them, each line by line
PyExtractExports(content) ==
    LET lines == Split(content, "\n")
        after(d) == Drop(d.rest, LeadingSpaces(d.rest))
        isDef(line) == LET d == Declared(line, <<"d","e","f">>)
                       IN  d.ok /\ StartsWith(after(d), <<"(">>)
        isClass(line) == LET d == Declared(line, <<"c","l","a","s","s">>)
                         IN  d.ok /\ (StartsWith(after(d), <<"(">>) \/ StartsWith(after(d), <<":">>))
        defs == SelectSeq(lines, isDef)
        classes == SelectSeq(lines, isClass)
    IN  [k \in 1..Len(defs) |-> Declared(defs[k], <<"d","e","f">>).name]
        \o [k \in 1..Len(classes) |-> Declared(classes[k], <<"c","l","a","s","s">>).name]

PyAnalyzeFile(file, moduleIndex, topLevelPackages) ==
    LET relativePath == NormalizeSlashes(file.path)
    IN  [path |-> relativePath,
         dependencies |-> PyParseImports(file.content, relativePath,
                                         filePathToModuleName(relativePath),
                                         moduleIndex, topLevelPackages),
         exports |-> PyExtractExports(file.content)]

PyAnalyzeDirectory(tree) ==
    LET srcFiles == PyFindSourceFiles(tree)
        moduleIndex == PyBuildModuleIndex(srcFiles)
        topLevelPackages == buildTopLevelPackages(moduleIndex)
    IN  [i \in 1..Len(srcFiles) |-> PyAnalyzeFile(srcFiles[i], moduleIndex, topLevelPackages)]


-----------------------------------------------------------------------------
(* KotlinImportGraphAnalyzer.                                              *)

KtFindSourceFiles(tree) ==
    SelectSeq(tree, LAMBDA f :
        /\ \A k \in 1..Len(DirNames(f.path)) :
              DirNames(f.path)[k] \notin {<<".","g","i","t">>, <<".","g","r","a","d","l","e">>, <<"b","u","i","l","d">>, <<"n","o","d","e","_","m","o","d","u","l","e","s">>,
                                          <<"o","u","t">>, <<"t","a","r","g","e","t">>}
        /\ EndsWith(BaseName(f.path), <<".","k","t">>)
        /\ ~Includes(<<"/">> \o NormalizeSlashes(f.path), <<"/","s","r","c","/","t","e","s","t","/">>)
        /\ ~Includes(<<"/">> \o NormalizeSlashes(f.path), <<"/","s","r","c","/","a","n","d","r","o","i","d","T","e","s","t","/">>)
        /\ ~EndsWith(BaseName(f.path), <<"T","e","s","t",".","k","t">>))

KotlinSanitizerState ==
    [blockCommentDepth |-> 0, inRawString |-> FALSE, inDoubleQuote |-> FALSE,
     inSingleQuote |-> FALSE, escaped |-> FALSE]

\* The loop iteration, were every `*/` to end the block comment
sanitizeLineStep_FlatComments(line, i, state) ==
    LET current == line[i]
        next == IF i + 1 <= Len(line) THEN line[i + 1] ELSE "undefined"
        next2 == IF i + 2 <= Len(line) THEN line[i + 2] ELSE "undefined"
        blank(n, st) == [n |-> n, text |-> [k \in 1..n |-> " "], state |-> st, break |-> FALSE]
        quoted(flag) ==
            IF state.escaped THEN blank(1, [state EXCEPT !.escaped = FALSE])
            ELSE IF current = "\\" THEN blank(1, [state EXCEPT !.escaped = TRUE])
            ELSE IF current = flag.quote THEN blank(1, flag.closed)
            ELSE blank(1, state)
    IN  IF state.blockCommentDepth > 0
        THEN IF current = "/" /\ next = "*"
             THEN blank(2, [state EXCEPT !.blockCommentDepth = @ + 1])
             ELSE IF current = "*" /\ next = "/"
             THEN blank(2, [state EXCEPT !.blockCommentDepth = 0])
             ELSE blank(1, state)
        ELSE IF state.inRawString
        THEN IF current = "\"" /\ next = "\"" /\ next2 = "\""
             THEN blank(3, [state EXCEPT !.inRawString = FALSE])
             ELSE blank(1, state)
        ELSE IF state.inDoubleQuote
        THEN quoted([quote |-> "\"", closed |-> [state EXCEPT !.inDoubleQuote = FALSE]])
        ELSE IF state.inSingleQuote
        THEN quoted([quote |-> "'", closed |-> [state EXCEPT !.inSingleQuote = FALSE]])
        ELSE IF current = "/" /\ next = "/"
        THEN [n |-> 0, text |-> <<>>, state |-> state, break |-> TRUE]
        ELSE IF current = "/" /\ next = "*"
        THEN blank(2, [state EXCEPT !.blockCommentDepth = @ + 1])
        ELSE IF current = "\"" /\ next = "\"" /\ next2 = "\""
        THEN blank(3, [state EXCEPT !.inRawString = TRUE])
        ELSE IF current = "\""
        THEN blank(1, [state EXCEPT !.inDoubleQuote = TRUE])
        ELSE IF current = "'"
        THEN blank(1, [state EXCEPT !.inSingleQuote = TRUE])
        ELSE [n |-> 1, text |-> <<current>>, state |-> state, break |-> FALSE]

\* One iteration of the loop of sanitizeLineForParsing at position i: the
\* characters it consumes, the text it appends, the state it leaves, and
\* whether it breaks out of the loop
sanitizeLineStep(line, i, state) ==
    LET current == line[i]
        next == IF i + 1 <= Len(line) THEN line[i + 1] ELSE "undefined"
        next2 == IF i + 2 <= Len(line) THEN line[i + 2] ELSE "undefined"
        blank(n, st) == [n |-> n, text |-> [k \in 1..n |-> " "], state |-> st, break |-> FALSE]
        quoted(flag) ==
            IF state.escaped THEN blank(1, [state EXCEPT !.escaped = FALSE])
            ELSE IF current = "\\" THEN blank(1, [state EXCEPT !.escaped = TRUE])
            ELSE IF current = flag.quote THEN blank(1, flag.closed)
            ELSE blank(1, state)
    IN  IF state.blockCommentDepth > 0
        THEN IF current = "/" /\ next = "*"
             THEN blank(2, [state EXCEPT !.blockCommentDepth = @ + 1])
             ELSE IF current = "*" /\ next = "/"
             THEN blank(2, [state EXCEPT !.blockCommentDepth = @ - 1])
             ELSE blank(1, state)
        ELSE IF state.inRawString
        THEN IF current = "\"" /\ next = "\"" /\ next2 = "\""
             THEN blank(3, [state EXCEPT !.inRawString = FALSE])
             ELSE blank(1, state)
        ELSE IF state.inDoubleQuote
        THEN quoted([quote |-> "\"", closed |-> [state EXCEPT !.inDoubleQuote = FALSE]])
        ELSE IF state.inSingleQuote
        THEN quoted([quote |-> "'", closed |-> [state EXCEPT !.inSingleQuote = FALSE]])
        ELSE IF current = "/" /\ next = "/"
        THEN [n |-> 0, text |-> <<>>, state |-> state, break |-> TRUE]
        ELSE IF current = "/" /\ next = "*"
        THEN blank(2, [state EXCEPT !.blockCommentDepth = @ + 1])
        ELSE IF current = "\"" /\ next = "\"" /\ next2 = "\""
        THEN blank(3, [state EXCEPT !.inRawString = TRUE])
        ELSE IF current = "\""
        THEN blank(1, [state EXCEPT !.inDoubleQuote = TRUE])
        ELSE IF current = "'"
        THEN blank(1, [state EXCEPT !.inSingleQuote = TRUE])
        ELSE [n |-> 1, text |-> <<current>>, state |-> state, break |-> FALSE]

\* sanitizeLineForParsing from position i on: the sanitized text and the
\* state the line leaves
RECURSIVE sanitizeLineFrom(_, _, _, _)
sanitizeLineFrom(line, i, state, sanitized) ==
    IF i > Len(line) THEN [sanitized |-> sanitized, state |-> state]
    ELSE LET step == sanitizeLineStep(line, i, state)
         IN  IF step.break THEN [sanitized |-> sanitized, state |-> state]
             ELSE sanitizeLineFrom(line, i + step.n, step.state, sanitized \o step.text)

sanitizeLineForParsing(line, state) == sanitizeLineFrom(line, 1, state, <<>>)

\* content.split('\n').map(line => sanitizeLineForParsing(line, state)), the
\* one state threaded through the lines
RECURSIVE sanitizeLinesFrom(_, _, _)
sanitizeLinesFrom(lines, k, state) ==
    IF k > Len(lines) THEN <<>>
    ELSE LET done == sanitizeLineForParsing(lines[k], state)
         IN  <<done.sanitized>> \o sanitizeLinesFrom(lines, k + 1, done.state)

sanitizeLinesForParsing(content) ==
    sanitizeLinesFrom(Split(content, "\n"), 1, KotlinSanitizerState)

\* line.trim().match(/^package\s+([A-Za-z_][A-Za-z0-9_.]*)$/): <<>> or <<name>>
KtPackageMatch(line) ==
    LET r1 == Drop(line, 7)
        r2 == Drop(r1, LeadingSpaces(r1))
    IN  IF /\ StartsWith(line, <<"p","a","c","k","a","g","e">>) /\ LeadingSpaces(r1) >= 1
           /\ r2 # <<>> /\ IsIdentStart(r2[1])
           /\ \A k \in 1..Len(r2) : IsWordChar(r2[k]) \/ r2[k] = "."
        THEN <<r2>> ELSE <<>>

\* The package name, the empty string for null
extractPackageName(content) ==
    LET lines == sanitizeLinesForParsing(content)
        hits == SelectSeq(lines, LAMBDA line : KtPackageMatch(Trim(line)) # <<>>)
    IN  IF hits = <<>> THEN <<>> ELSE KtPackageMatch(Trim(hits[1]))[1]

KtModifiers ==
    {<<"p","u","b","l","i","c">>, <<"p","r","i","v","a","t","e">>, <<"i","n","t","e","r","n","a","l">>, <<"p","r","o","t","e","c","t","e","d">>, <<"o","p","e","n">>, <<"a","b","s","t","r","a","c","t">>, <<"f","i","n","a","l">>,
     <<"s","e","a","l","e","d">>, <<"d","a","t","a">>, <<"e","n","u","m">>, <<"a","n","n","o","t","a","t","i","o","n">>, <<"v","a","l","u","e">>, <<"i","n","l","i","n","e">>, <<"e","x","p","e","c","t">>,
     <<"a","c","t","u","a","l">>, <<"e","x","t","e","r","n","a","l">>, <<"t","a","i","l","r","e","c">>, <<"s","u","s","p","e","n","d">>, <<"o","p","e","r","a","t","o","r">>, <<"i","n","f","i","x">>, <<"c","o","n","s","t">>,
     <<"l","a","t","e","i","n","i","t">>, <<"o","v","e","r","r","i","d","e">>}

KtDeclarationKeywords == {<<"c","l","a","s","s">>, <<"i","n","t","e","r","f","a","c","e">>, <<"o","b","j","e","c","t">>, <<"t","y","p","e","a","l","i","a","s">>, <<"f","u","n">>}

\* The text after the leading modifiers, each followed by white space
RECURSIVE SkipModifiers(_)
SkipModifiers(s) ==
    IF \E m \in KtModifiers : StartsWith(s, m) /\ LeadingSpaces(Drop(s, Len(m))) >= 1
    THEN LET m == CHOOSE m \in KtModifiers :
                     StartsWith(s, m) /\ LeadingSpaces(Drop(s, Len(m))) >= 1
             rest == Drop(s, Len(m))
         IN  SkipModifiers(Drop(rest, LeadingSpaces(rest)))
    ELSE s

\* The declaration pattern of extractExports on a trimmed line: <<>> or <<name>>
KtDeclarationMatch(trimmed) ==
    LET s == SkipModifiers(trimmed)
        hits == {kw \in KtDeclarationKeywords : Declared(s, kw).ok /\ StartsWith(s, kw)}
    IN  IF hits = {} THEN <<>> ELSE <<Declared(s, CHOOSE kw \in hits : TRUE).name>>

\* /\b(private|protected)\b/.test(trimmed)
hasRestrictedVisibility(trimmed) ==
    \E w \in {<<"p","r","i","v","a","t","e">>, <<"p","r","o","t","e","c","t","e","d">>} : \E i \in 1..Len(trimmed) :
        /\ i + Len(w) - 1 <= Len(trimmed)
        /\ SubSeq(trimmed, i, i + Len(w) - 1) = w
        /\ (i = 1 \/ ~IsWordChar(trimmed[i - 1]))
        /\ (i + Len(w) > Len(trimmed) \/ ~IsWordChar(trimmed[i + Len(w)]))

\* The loop of extractExports from line k on, at brace depth braceDepth
RECURSIVE KtExportsFrom(_, _, _)
KtExportsFrom(lines, k, braceDepth) ==
    IF k > Len(lines) THEN <<>>
    ELSE LET line == lines[k]
             trimmed == Trim(line)
             found == IF /\ braceDepth = 0 /\ KtDeclarationMatch(trimmed) # <<>>
                         /\ ~hasRestrictedVisibility(trimmed)
                      THEN KtDeclarationMatch(trimmed) ELSE <<>>
             depth == Max({braceDepth + CountChar(line, "{") - CountChar(line, "}"), 0})
         IN  found \o KtExportsFrom(lines, k + 1, depth)

KtExtractExports(content) == KtExportsFrom(sanitizeLinesForParsing(content), 1, 0)


\* buildFileData: one KotlinFileData for each source file, in walk order
buildFileData(srcFiles) ==
    [i \in 1..Len(srcFiles) |->
        [content |-> srcFiles[i].content,
         relativePath |-> NormalizeSlashes(srcFiles[i].path),
         packageName |-> extractPackageName(srcFiles[i].content),
         exports |-> KtExtractExports(srcFiles[i].content)]]

\* path.basename(filePath, '.kt')
KtBaseName(p) ==
    LET base == BaseName(NormalizeSlashes(p))
    IN  IF EndsWith(base, <<".","k","t">>) /\ Len(base) > 3 THEN SubSeq(base, 1, Len(base) - 3) ELSE base

\* The setIndexIfAbsent calls of buildSymbolIndex, in order, as <<key, path>>
KtSymbolEntries(fileData) ==
    Flatten([i \in 1..Len(fileData) |->
        LET fd == fileData[i]
            qualify(name) == IF fd.packageName # <<>> THEN fd.packageName \o <<".">> \o name
                             ELSE name
        IN  <<<<qualify(KtBaseName(fd.relativePath)), fd.relativePath>>>>
            \o [k \in 1..Len(fd.exports) |-> <<qualify(fd.exports[k]), fd.relativePath>>]])

\* A key keeps the path of the first entry that has it
buildSymbolIndex(fileData) ==
    LET entries == KtSymbolEntries(fileData)
    IN  [key \in {entries[k][1] : k \in 1..Len(entries)} |->
            entries[Min({k \in 1..Len(entries) : entries[k][1] = key})][2]]

buildPackageIndex(fileData) ==
    [pkg \in {fileData[i].packageName : i \in 1..Len(fileData)} \ {<<>>} |->
        LET members == SelectSeq(fileData, LAMBDA fd : fd.packageName = pkg)
        IN  [k \in 1..Len(members) |-> members[k].relativePath]]

buildPackagePrefixes(packageIndex) ==
    UNION {LET parts == NonEmpty(Split(pkg, "."))
           IN  {pkg} \cup (IF Len(parts) >= 2 THEN {parts[1] \o <<".">> \o parts[2]}
                           ELSE IF Len(parts) = 1 THEN {parts[1]} ELSE {})
           : pkg \in DOMAIN packageIndex}

\* Variant: a prefix matches without the dot after it
looksInternalImport_NoDotBoundary(importPath, packagePrefixes) ==
    \E localPrefix \in packagePrefixes : StartsWith(importPath, localPrefix)

looksInternalImport(importPath, packagePrefixes) ==
    \E localPrefix \in packagePrefixes :
        importPath = localPrefix \/ StartsWith(importPath, localPrefix \o <<".">>)

\* s.lastIndexOf('.'), 0 for -1
LastDot(s) == IF \E i \in 1..Len(s) : s[i] = "." THEN Max({i \in 1..Len(s) : s[i] = "."}) ELSE 0

\* The while loop of resolveImportPath: the path found for the candidate or
\* one of its dotted prefixes, the empty string for none
RECURSIVE KtResolveCandidate(_, _)
KtResolveCandidate(candidate, symbolIndex) ==
    IF candidate = <<>> THEN <<>>
    ELSE IF candidate \in DOMAIN symbolIndex THEN symbolIndex[candidate]
    ELSE IF LastDot(candidate) = 0 THEN <<>>
    ELSE KtResolveCandidate(SubSeq(candidate, 1, LastDot(candidate) - 1), symbolIndex)

\* Variant: a star import of a local package targets the package name
resolveImportPath_StarToPackage(importPath, symbolIndex, packageIndex, packagePrefixes) ==
    IF EndsWith(importPath, <<".", "*">>)
    THEN LET importedPackage == SubSeq(importPath, 1, Len(importPath) - 2)
             looksInternal == looksInternalImport(importedPackage, packagePrefixes)
         IN  IF importedPackage \in DOMAIN packageIndex
             THEN [to |-> importedPackage, isExternal |-> FALSE, isUnresolved |-> FALSE]
             ELSE [to |-> importPath, isExternal |-> ~looksInternal,
                   isUnresolved |-> looksInternal]
    ELSE LET resolvedPath == KtResolveCandidate(importPath, symbolIndex)
             looksInternal == looksInternalImport(importPath, packagePrefixes)
         IN  IF resolvedPath # <<>>
             THEN [to |-> resolvedPath, isExternal |-> FALSE, isUnresolved |-> FALSE]
             ELSE [to |-> importPath, isExternal |-> ~looksInternal,
                   isUnresolved |-> looksInternal]

resolveImportPath(importPath, symbolIndex, packageIndex, packagePrefixes) ==
    IF EndsWith(importPath, <<".","*">>)
    THEN LET importedPackage == SubSeq(importPath, 1, Len(importPath) - 2)
             looksInternal == looksInternalImport(importedPackage, packagePrefixes)
         IN  IF importedPackage \in DOMAIN packageIndex
             THEN [to |-> packageIndex[importedPackage][1], isExternal |-> FALSE,
                   isUnresolved |-> FALSE]
             ELSE [to |-> importPath, isExternal |-> ~looksInternal,
                   isUnresolved |-> looksInternal]
    ELSE LET resolvedPath == KtResolveCandidate(importPath, symbolIndex)
             looksInternal == looksInternalImport(importPath, packagePrefixes)
         IN  IF resolvedPath # <<>>
             THEN [to |-> resolvedPath, isExternal |-> FALSE, isUnresolved |-> FALSE]
             ELSE [to |-> importPath, isExternal |-> ~looksInternal,
                   isUnresolved |-> looksInternal]

\* The length of the longest (\.ident|\.\*)* at the start of s
RECURSIVE KtPathSegments(_)
KtPathSegments(s) ==
    IF StartsWith(s, <<".">>) /\ LeadingIdent(Drop(s, 1)) >= 1
    THEN 1 + LeadingIdent(Drop(s, 1)) + KtPathSegments(Drop(s, 1 + LeadingIdent(Drop(s, 1))))
    ELSE IF StartsWith(s, <<".","*">>) THEN 2 + KtPathSegments(Drop(s, 2))
    ELSE 0

\* The import pattern of parseImports on a cleaned line: <<>> or <<importPath>>
KtImportMatch(cleanedLine) ==
    LET r1 == Drop(cleanedLine, 6)
        r2 == Drop(r1, LeadingSpaces(r1))
        n == IF LeadingIdent(r2) = 0 THEN 0
             ELSE LeadingIdent(r2) + KtPathSegments(Drop(r2, LeadingIdent(r2)))
        r3 == Drop(r2, n)
        r4 == Drop(r3, LeadingSpaces(r3))
        r5 == Drop(r4, 2)
        r6 == Drop(r5, LeadingSpaces(r5))
        alias == /\ LeadingSpaces(r3) >= 1 /\ StartsWith(r4, <<"a","s">>)
                 /\ LeadingSpaces(r5) >= 1 /\ r6 # <<>> /\ LeadingIdent(r6) = Len(r6)
    IN  IF /\ StartsWith(cleanedLine, <<"i","m","p","o","r","t">>) /\ LeadingSpaces(r1) >= 1 /\ n >= 1
           /\ (r3 = <<>> \/ alias)
        THEN <<SubSeq(r2, 1, n)>> ELSE <<>>

KtParseImports(content, fromPath, symbolIndex, packageIndex, packagePrefixes) ==
    LET lines == Split(content, "\n")
        sanitizedLines == sanitizeLinesForParsing(content)
        cleanedLine(i) == Trim(sanitizedLines[i])
        imports == SelectSeq(Indexes(lines), LAMBDA i :
                       /\ cleanedLine(i) # <<>>
                       /\ ~StartsWith(cleanedLine(i), <<"p","a","c","k","a","g","e"," ">>)
                       /\ KtImportMatch(cleanedLine(i)) # <<>>)
    IN  [k \in 1..Len(imports) |->
            LET resolved == resolveImportPath(KtImportMatch(cleanedLine(imports[k]))[1],
                                              symbolIndex, packageIndex, packagePrefixes)
            IN  Dependency(fromPath, resolved.to, imports[k], Trim(lines[imports[k]]),
                           resolved.isExternal, resolved.isUnresolved)]

KtAnalyzeDirectory(tree) ==
    LET fileData == buildFileData(KtFindSourceFiles(tree))
        symbolIndex == buildSymbolIndex(fileData)
        packageIndex == buildPackageIndex(fileData)
        packagePrefixes == buildPackagePrefixes(packageIndex)
    IN  [i \in 1..Len(fileData) |->
            [path |-> fileData[i].relativePath,
             dependencies |-> KtParseImports(fileData[i].content, fileData[i].relativePath,
                                             symbolIndex, packageIndex, packagePrefixes),
             exports |-> fileData[i].exports]]


-----------------------------------------------------------------------------
(* SwiftImportGraphAnalyzer.                                               *)

SwFindSourceFiles(tree) ==
    SelectSeq(tree, LAMBDA f :
        /\ \A k \in 1..Len(DirNames(f.path)) :
              DirNames(f.path)[k] \notin {<<".","b","u","i","l","d">>, <<".","g","i","t">>, <<"b","u","i","l","d">>, <<"D","e","r","i","v","e","d","D","a","t","a">>,
                                          <<"n","o","d","e","_","m","o","d","u","l","e","s">>}
        /\ EndsWith(BaseName(f.path), <<".","s","w","i","f","t">>)
        /\ ~EndsWith(BaseName(f.path), <<"T","e","s","t","s",".","s","w","i","f","t">>))

\* The module name of a file, the empty string for null
inferLocalModuleName(filePath) ==
    LET parts == NonEmpty(Split(NormalizeSlashes(filePath), "/"))
        sourcesIndex == SeqIndexOf(parts, <<"S","o","u","r","c","e","s">>)
    IN  IF parts = <<>> THEN <<>>
        ELSE IF sourcesIndex # 0 /\ Len(parts) > sourcesIndex THEN parts[sourcesIndex + 1]
        ELSE IF Len(parts) > 1 THEN parts[1]
        ELSE <<>>

\* A module name keeps the path of the first file that has it
buildLocalModuleIndex(srcFiles) ==
    [name \in {inferLocalModuleName(srcFiles[i].path) : i \in 1..Len(srcFiles)} \ {<<>>} |->
        LET first == Min({i \in 1..Len(srcFiles) : inferLocalModuleName(srcFiles[i].path) = name})
        IN  NormalizeSlashes(srcFiles[first].path)]

\* line.match(/^\s*import\s+([A-Za-z_][A-Za-z0-9_]*)/): <<>> or <<name>>
SwImportMatch(line) ==
    LET r1 == Drop(line, LeadingSpaces(line))
        r2 == Drop(r1, 6)
        r3 == Drop(r2, LeadingSpaces(r2))
    IN  IF StartsWith(r1, <<"i","m","p","o","r","t">>) /\ LeadingSpaces(r2) >= 1 /\ LeadingIdent(r3) >= 1
        THEN <<SubSeq(r3, 1, LeadingIdent(r3))>> ELSE <<>>

SwParseImports(content, fromPath, localModuleIndex) ==
    LET lines == Split(content, "\n")
        imports == SelectSeq(Indexes(lines), LAMBDA i : SwImportMatch(lines[i]) # <<>>)
    IN  [k \in 1..Len(imports) |->
            LET importedModule == SwImportMatch(lines[imports[k]])[1]
                isLocal == importedModule \in DOMAIN localModuleIndex
            IN  Dependency(fromPath,
                           IF isLocal THEN localModuleIndex[importedModule] ELSE importedModule,
                           imports[k], Trim(lines[imports[k]]), ~isLocal, FALSE)]

MatchAt(s, i, w) == i >= 1 /\ i + Len(w) - 1 <= Len(s) /\ SubSeq(s, i, i + Len(w) - 1) = w

\* \b before position i and after position j, both holding word characters
BoundaryBefore(s, i) == i = 1 \/ ~IsWordChar(s[i - 1])

BoundaryAfter(s, j) == j = Len(s) \/ ~IsWordChar(s[j + 1])

SwTypeKeywords == {<<"c","l","a","s","s">>, <<"s","t","r","u","c","t">>, <<"e","n","u","m">>, <<"p","r","o","t","o","c","o","l">>, <<"a","c","t","o","r">>}

\* /\b(class|struct|enum|protocol|actor)\s+([A-Za-z_][A-Za-z0-9_]*)/ at
\* position i of the content: the position after the match, 0 for no match
SwTypeMatchEnd(content, i) ==
    LET hits == {kw \in SwTypeKeywords :
                    LET rest == Drop(content, i + Len(kw) - 1)
                    IN  /\ MatchAt(content, i, kw) /\ BoundaryBefore(content, i)
                        /\ LeadingSpaces(rest) >= 1
                        /\ LeadingIdent(Drop(rest, LeadingSpaces(rest))) >= 1}
        kw == CHOOSE kw \in hits : TRUE
        rest == Drop(content, i + Len(kw) - 1)
    IN  IF hits = {} THEN 0
        ELSE i + Len(kw) + LeadingSpaces(rest) + LeadingIdent(Drop(rest, LeadingSpaces(rest)))

\* The successive matches of the pattern from position from on
RECURSIVE SwExportsFrom(_, _)
SwExportsFrom(content, from) ==
    LET starts == {i \in from..Len(content) : SwTypeMatchEnd(content, i) # 0}
        end == SwTypeMatchEnd(content, Min(starts))
        nameLen == end - 1 - Max({j \in 1..(end - 1) : IsSpace(content[j])})
    IN  IF starts = {} THEN <<>>
        ELSE <<SubSeq(content, end - nameLen, end - 1)>> \o SwExportsFrom(content, end)

SwExtractExports(content) == SwExportsFrom(content, 1)


\* /\bword\b/.test(line)
HasWord(line, word) ==
    \E i \in 1..Len(line) :
        MatchAt(line, i, word) /\ BoundaryBefore(line, i) /\ BoundaryAfter(line, i + Len(word) - 1)

\* /name\s*\(/.test(line), with \b before the name when bounded
HasCall(line, name, bounded) ==
    \E i \in 1..Len(line) :
        /\ MatchAt(line, i, name)
        /\ bounded => BoundaryBefore(line, i)
        /\ LET rest == Drop(line, i + Len(name) - 1)
           IN  StartsWith(Drop(rest, LeadingSpaces(rest)), <<"(">>)

\* /\bawait\s+URLSession\b/.test(line)
HasAwaitURLSession(line) ==
    \E i \in 1..Len(line) :
        /\ MatchAt(line, i, <<"a","w","a","i","t">>) /\ BoundaryBefore(line, i)
        /\ LET rest == Drop(line, i + 4)
               word == Drop(rest, LeadingSpaces(rest))
           IN  /\ LeadingSpaces(rest) >= 1 /\ StartsWith(word, <<"U","R","L","S","e","s","s","i","o","n">>)
               /\ (Len(word) = 10 \/ ~IsWordChar(word[11]))

\* /\bstruct\s+\w+\s*:\s*View\b/.test(line)
IsViewStruct(line) ==
    \E i \in 1..Len(line) :
        /\ MatchAt(line, i, <<"s","t","r","u","c","t">>) /\ BoundaryBefore(line, i)
        /\ LET r1 == Drop(line, i + 5)
               r2 == Drop(r1, LeadingSpaces(r1))
               r3 == Drop(r2, LeadingRun(r2, WordChars))
               r4 == Drop(r3, LeadingSpaces(r3))
               r5 == Drop(r4, 1)
               r6 == Drop(r5, LeadingSpaces(r5))
           IN  /\ LeadingSpaces(r1) >= 1 /\ LeadingRun(r2, WordChars) >= 1
               /\ StartsWith(r4, <<":">>) /\ StartsWith(r6, <<"V","i","e","w">>)
               /\ (Len(r6) = 4 \/ ~IsWordChar(r6[5]))

\* The inner loop of extractSwiftUIViewScopes: the last line of the scope
RECURSIVE SwScopeEnd(_, _, _, _)
SwScopeEnd(lines, j, braceDepth, endLine) ==
    IF j > Len(lines) THEN endLine
    ELSE LET depth == braceDepth + CountChar(lines[j], "{") - CountChar(lines[j], "}")
         IN  IF depth <= 0 THEN j ELSE SwScopeEnd(lines, j + 1, depth, j)

extractSwiftUIViewScopes(lines) ==
    LET opens(i) == CountChar(lines[i], "{") - CountChar(lines[i], "}")
        starts == SelectSeq(Indexes(lines), LAMBDA i : IsViewStruct(lines[i]) /\ opens(i) > 0)
    IN  [k \in 1..Len(starts) |->
            [start |-> starts[k],
             end |-> SwScopeEnd(lines, starts[k] + 1, opens(starts[k]), starts[k])]]

\* The first line of the first scope that has one satisfying the predicate
\* (given as the set of the lines that satisfy it), 0 for null
findFirstLineInScopesByPredicate(lines, scopes, predicate) ==
    LET hit(k) == (scopes[k].start..scopes[k].end) \cap predicate
        withHit == {k \in 1..Len(scopes) : hit(k) # {}}
    IN  IF withHit = {} THEN 0 ELSE Min(hit(Min(withHit)))

Signal(id, line, message) == [id |-> id, line |-> line, message |-> message]

detectAntiPatternSignals(content) ==
    LET lines == Split(content, "\n")
        viewScopes == extractSwiftUIViewScopes(lines)
        networking(i) ==
            \/ HasWord(lines[i], <<"U","R","L","S","e","s","s","i","o","n">>)
            \/ HasCall(lines[i], <<".","d","a","t","a","T","a","s","k">>, FALSE)
            \/ HasCall(lines[i], <<"U","R","L","R","e","q","u","e","s","t">>, TRUE)
            \/ HasAwaitURLSession(lines[i])
        decoding(i) == HasCall(lines[i], <<"J","S","O","N","D","e","c","o","d","e","r">>, TRUE)
        businessLogic(i) ==
            /\ HasCall(lines[i], <<".","r","e","d","u","c","e">>, FALSE)
            /\ \E j \in i..Min({Len(lines), i + 3}) : \E k \in 1..Len(lines[j]) :
                  lines[j][k] \in {"+", "*", "/", "-"}
        networkingLine == findFirstLineInScopesByPredicate(lines, viewScopes,
                {i \in 1..Len(lines) : networking(i)})
        decodingLine == findFirstLineInScopesByPredicate(lines, viewScopes,
                {i \in 1..Len(lines) : decoding(i)})
        businessLogicLine == findFirstLineInScopesByPredicate(lines, viewScopes,
                {i \in 1..Len(lines) : businessLogic(i)})
    IN  IF viewScopes = <<>> THEN <<>>
        ELSE (IF networkingLine # 0
              THEN <<Signal("swift-view-networking", networkingLine,
                            "Networking logic detected in SwiftUI View.")>> ELSE <<>>)
          \o (IF decodingLine # 0
              THEN <<Signal("swift-view-decoding", decodingLine,
                            "JSON decoding detected in SwiftUI View.")>> ELSE <<>>)
          \o (IF businessLogicLine # 0
              THEN <<Signal("swift-view-business-logic", businessLogicLine,
                            "Business calculation (.reduce) detected in SwiftUI View.")>>
              ELSE <<>>)

SwAnalyzeDirectory(tree) ==
    LET srcFiles == SwFindSourceFiles(tree)
        moduleIndex == buildLocalModuleIndex(srcFiles)
    IN  [i \in 1..Len(srcFiles) |->
            [path |-> NormalizeSlashes(srcFiles[i].path),
             dependencies |-> SwParseImports(srcFiles[i].content,
                                             NormalizeSlashes(srcFiles[i].path), moduleIndex),
             exports |-> SwExtractExports(srcFiles[i].content),
             signals |-> detectAntiPatternSignals(srcFiles[i].content)]]


-----------------------------------------------------------------------------
(* The analyzers as a state machine: the trees they are run on.            *)

MaxNames == 2     \* names listed in a parenthesized Python from-import
MaxImports == 2   \* import lines of the varied Kotlin or Swift file

Lines(ls) == Join(ls, <<"\n">>)

\* A Python project: package p with the sub-packages v and s, a test file
\* that the walk skips, and the two files whose content varies
PyTree(initContent, cartContent) ==
    << File(<<"p","/","_","_","i","n","i","t","_","_",".","p","y">>, <<>>),
       File(<<"p","/","v","/","_","_","i","n","i","t","_","_",".","p","y">>, initContent),
       File(<<"p","/","s","/","_","_","i","n","i","t","_","_",".","p","y">>, <<>>),
       File(<<"p","/","s","/","o",".","p","y">>, <<"d","e","f"," ","t","(","i",")",":","\n"," "," "," "," ","r","e","t","u","r","n"," ","i">>),
       File(<<"p","/","s","/","b",".","p","y">>, <<"c","l","a","s","s"," ","B",":","\n"," "," "," "," ","p","a","s","s">>),
       File(<<"p","/","v","/","h",".","p","y">>, <<"d","e","f"," ","f","(","v",")",":","\n"," "," "," "," ","r","e","t","u","r","n"," ","v">>),
       File(<<"p","/","t","e","s","t","_","x",".","p","y">>, <<"i","m","p","o","r","t"," ","p">>),
       File(<<"p","/","v","/","c",".","p","y">>, cartContent) >>

PyNames == {<<"o">>, <<"b">>, <<"h">>}

PyNameLists == UNION {[1..n -> PyNames] : n \in 1..MaxNames}

PyModuleSpecs == {<<"p",".","s">>, <<".">>}

\* The text of the inline comment after the first name, empty for none
PyComments == {<<>>, <<"c">>, <<"(","c">>, <<"c",")">>}

PyStyles == {[trailing |-> FALSE, blank |-> FALSE], [trailing |-> TRUE, blank |-> FALSE],
             [trailing |-> TRUE, blank |-> TRUE]}

\* from moduleSpec import ( names ) over several lines
PyMultiLine(moduleSpec, names, comment, style) ==
    LET nameLine(k) ==
            <<" "," "," "," ">> \o names[k]
            \o (IF k < Len(names) \/ style.trailing THEN <<",">> ELSE <<>>)
            \o (IF k = 1 /\ comment # <<>> THEN <<" "," ","#"," ">> \o comment ELSE <<>>)
    IN  <<<<"f","r","o","m"," ">> \o moduleSpec \o <<" ","i","m","p","o","r","t"," ","(">>, nameLine(1)>>
        \o (IF style.blank THEN <<<<>>>> ELSE <<>>)
        \o [k \in 1..(Len(names) - 1) |-> nameLine(k + 1)]
        \o <<<<")">>>>

\* The statements that may follow, and the single-line statements
PyFollowers == {<<>>, <<<<"i","m","p","o","r","t"," ","o","s">>>>, <<<<"f","r","o","m"," ","p",".","s"," ","i","m","p","o","r","t"," ","b">>>>}

PySimple ==
    {<<"i","m","p","o","r","t"," ","o","s",","," ","p",".","z","z"," ","a","s"," ","z">>, <<"f","r","o","m"," ","p",".","s"," ","i","m","p","o","r","t"," ","o",","," ","b">>, <<"f","r","o","m"," ",".",".",".",".","b","a","d"," ","i","m","p","o","r","t"," ","x">>,
     <<"f","r","o","m"," ",".","h"," ","i","m","p","o","r","t"," ","f">>, <<"i","m","p","o","r","t"," ","q",".","r">>, <<"f","r","o","m"," ","p",".","s",".","o"," ","i","m","p","o","r","t"," ","t"," ","a","s"," ","u">>}

PyInitContents ==
    {<<"f","r","o","m"," ",".",".",".",".","s"," ","i","m","p","o","r","t"," ","o">>, <<"f","r","o","m"," ",".","h"," ","i","m","p","o","r","t"," ","f">>, <<"f","r","o","m"," ",".","h"," ","i","m","p","o","r","t"," ","*">>, <<"f","r","o","m"," ","."," ","i","m","p","o","r","t"," ","h">>, <<"f","r","o","m"," ",".",".","s"," ","i","m","p","o","r","t"," ","o">>,
     <<"f","r","o","m"," ",".","z","z"," ","i","m","p","o","r","t"," ","x">>, <<"i","m","p","o","r","t"," ","p",".","v",".","h">>}

\* A Kotlin project: a/D.kt in the package packageLine declares, a/U.kt with
\* the varied imports, a test source and a file without a package
KtTree(packageLine, imports) ==
    << File(<<"a","/","D",".","k","t">>, Lines(packageLine \o <<<<"c","l","a","s","s"," ","D"," ","{">>, <<" "," ","f","u","n"," ","i","n","n","e","r","(",")"," ","{","}">>, <<"}">>,
                                               <<"p","r","i","v","a","t","e"," ","c","l","a","s","s"," ","H">>, <<"f","u","n"," ","t","o","p","(",")"," ","{","}">>>>)),
       File(<<"a","/","U",".","k","t">>, Lines(<<<<"p","a","c","k","a","g","e"," ","c","o","m",".","e","x",".","u"," ","/","/"," ","u","i">>>> \o imports \o <<<<"c","l","a","s","s"," ","U">>>>)),
       File(<<"a","/","s","r","c","/","t","e","s","t","/","T",".","k","t">>, Lines(<<<<"p","a","c","k","a","g","e"," ","c","o","m",".","e","x",".","t">>, <<"c","l","a","s","s"," ","T">>>>)),
       File(<<"M",".","k","t">>, Lines(<<<<"f","u","n"," ","m","a","i","n","(",")"," ","{","}">>>>)) >>

KtPackageLines == {<<<<"p","a","c","k","a","g","e"," ","c","o","m",".","e","x",".","d">>>>, <<<<"p","a","c","k","a","g","e"," ","d">>>>, <<>>}

KtImportChoices ==
    {<<"i","m","p","o","r","t"," ","c","o","m",".","e","x",".","d",".","D">>, <<"i","m","p","o","r","t"," ","c","o","m",".","e","x",".","d",".","*">>, <<"i","m","p","o","r","t"," ","c","o","m",".","e","x",".","m",".","F">>, <<"i","m","p","o","r","t"," ","c","o","m",".","e","x","x",".","F">>,
     <<"i","m","p","o","r","t"," ","c","o","m",".","o",".","F">>, <<"i","m","p","o","r","t"," ","c","o","m",".","e","x",".","d",".","H">>, <<"i","m","p","o","r","t"," ","d",".","D"," ","a","s"," ","X">>, <<"i","m","p","o","r","t"," ","D">>,
     <<"i","m","p","o","r","t"," ","c","o","m",".","e","x",".","t",".","T">>, <<"/","*"," ","c"," ","*","/"," ","i","m","p","o","r","t"," ","m","a","i","n">>}

\* A Swift project in one of three layouts, V.swift with the varied imports
SwTree(layout, imports) ==
    LET content == Lines(imports \o <<<<"s","t","r","u","c","t"," ","V",":"," ","V","i","e","w"," ","{">>, <<" "," ","l","e","t"," ","d"," ","="," ","J","S","O","N","D","e","c","o","d","e","r","(",")">>, <<"}">>>>)
    IN  IF layout = "package"
        THEN << File(<<"S","o","u","r","c","e","s","/","C","o","r","e","/","M",".","s","w","i","f","t">>, <<"s","t","r","u","c","t"," ","O","r","d","e","r"," ","{","}">>),
                File(<<"S","o","u","r","c","e","s","/","U","I","/","V",".","s","w","i","f","t">>, content),
                File(<<"S","o","u","r","c","e","s","/","U","I","/","V","T","e","s","t","s",".","s","w","i","f","t">>, <<"i","m","p","o","r","t"," ","C","o","r","e">>),
                File(<<"A","p","p",".","s","w","i","f","t">>, <<"i","m","p","o","r","t"," ","U","I">>) >>
        ELSE IF layout = "sources"
        THEN << File(<<"C","o","r","e","/","M",".","s","w","i","f","t">>, <<"s","t","r","u","c","t"," ","O","r","d","e","r"," ","{","}">>),
                File(<<"U","I","/","V",".","s","w","i","f","t">>, content),
                File(<<"A","p","p",".","s","w","i","f","t">>, <<"i","m","p","o","r","t"," ","U","I">>) >>
        ELSE << File(<<"M",".","s","w","i","f","t">>, <<"s","t","r","u","c","t"," ","O","r","d","e","r"," ","{","}">>), File(<<"V",".","s","w","i","f","t">>, content) >>

SwLayouts == {"package", "sources", "flat"}

SwImportChoices ==
    {<<"i","m","p","o","r","t"," ","C","o","r","e">>, <<"i","m","p","o","r","t"," ","U","I">>, <<"i","m","p","o","r","t"," ","F","o","u","n","d","a","t","i","o","n">>, <<" "," ","i","m","p","o","r","t"," ","C","o","r","e">>,
     <<"/","/"," ","i","m","p","o","r","t"," ","C","o","r","e">>, <<"i","m","p","o","r","t"," ","c","l","a","s","s"," ","C","o","r","e",".","O","r","d","e","r">>, <<"@","t","e","s","t","a","b","l","e"," ","i","m","p","o","r","t"," ","C","o","r","e">>}

ImportLists(choices) == UNION {[1..n -> choices] : n \in 0..MaxImports}

-----------------------------------------------------------------------------
(* The analyzers as a state machine.                                       *)

NoConfig == [language |-> "none", layers |-> <<>>, rules |-> Rules("true", "true", "true")]

EngineIdle ==
    /\ phase = "idle" /\ config = NoConfig /\ layerMap = <<>>
    /\ modules = <<>> /\ modulesWithLayers = <<>> /\ result = NoResult

\* A project of one language, not analyzed yet
InitAnalyzers ==
    /\ EngineIdle
    /\ ToolsIdle
    /\ analyzed = FALSE
    /\ out = <<>>
    /\ registry = <<>> /\ unreadable = {} /\ rejected = FALSE
    /\ \/ /\ lang = "python"
          /\ \/ \E moduleSpec \in PyModuleSpecs, names \in PyNameLists, comment \in PyComments,
                   style \in PyStyles, follower \in PyFollowers :
                    files = PyTree(<<>>, Lines(PyMultiLine(moduleSpec, names, comment, style)
                                               \o follower))
             \/ \E statement \in PySimple, follower \in PyFollowers :
                    files = PyTree(<<>>, Lines(<<statement>> \o follower))
             \/ \E initContent \in PyInitContents :
                    files = PyTree(initContent, <<"f","r","o","m"," ",".","h"," ","i","m","p","o","r","t"," ","f">>)
       \/ /\ lang = "kotlin"
          /\ \E packageLine \in KtPackageLines, imports \in ImportLists(KtImportChoices) :
                files = KtTree(packageLine, imports)
       \/ /\ lang = "swift"
          /\ \E layout \in SwLayouts, imports \in ImportLists(SwImportChoices) :
                files = SwTree(layout, imports)

\* this.modules.set(module.path, module): a new key is appended, the value
\* of a key the map holds is replaced in place
RegistrySet(reg, module) ==
    IF \E k \in 1..Len(reg) : reg[k].path = module.path
    THEN [k \in 1..Len(reg) |-> IF reg[k].path = module.path THEN module ELSE reg[k]]
    ELSE Append(reg, module)

RECURSIVE RegistrySetAll(_, _)
RegistrySetAll(reg, mods) ==
    IF mods = <<>> THEN reg ELSE RegistrySetAll(RegistrySet(reg, Head(mods)), Tail(mods))

\* analyzer.analyzeDirectory(root, root) of the analyzer of the language,
\* which clears this.modules and sets each module it returns
AnalyzeDirectory(language, modulesOut) ==
    /\ lang = language
    /\ ~analyzed
    /\ out' = modulesOut
    /\ registry' = RegistrySetAll(<<>>, modulesOut)
    /\ analyzed' = TRUE
    /\ UNCHANGED <<phase, config, layerMap, modules, modulesWithLayers, result, lang, files,
                   unreadable, rejected, sanitizer, editor>>

AnalyzePython == AnalyzeDirectory("python", PyAnalyzeDirectory(files))

AnalyzeKotlin == AnalyzeDirectory("kotlin", KtAnalyzeDirectory(files))

AnalyzeSwift == AnalyzeDirectory("swift", SwAnalyzeDirectory(files))

NextAnalyzers == AnalyzePython \/ AnalyzeKotlin \/ AnalyzeSwift

SpecAnalyzers == InitAnalyzers /\ [][NextAnalyzers]_vars


-----------------------------------------------------------------------------
(* Properties of the analyzers.                                            *)

\* The dependencies of the returned modules, as <<module, position>>
OutDepIdx == UNION {{<<i, j>> : j \in 1..Len(out[i].dependencies)} : i \in 1..Len(out)}

OutDep(ij) == out[ij[1]].dependencies[ij[2]]

\* The relative paths of the analyzed files
AnalyzedPaths == {out[i].path : i \in 1..Len(out)}

\* C5: every dependency the Kotlin, Python and Swift analyzers return has at
\* most one of isExternal and isUnresolved true, and one with both false has
\* as target the relative path of an analyzed file.
C5_ThreeWayClassification ==
    analyzed =>
        \A ij \in OutDepIdx :
            /\ ~(OutDep(ij).isExternal /\ OutDep(ij).isUnresolved)
            /\ LocalResolved(OutDep(ij)) => OutDep(ij).to \in AnalyzedPaths

\* C5 witness: a resolved, an unresolved and an external import of one
\* analyzed project.
C5_Witness ==
    /\ analyzed
    /\ \E ij \in OutDepIdx : LocalResolved(OutDep(ij)) /\ OutDep(ij).to \in AnalyzedPaths
    /\ \E ij \in OutDepIdx : OutDep(ij).isUnresolved /\ ~OutDep(ij).isExternal
    /\ \E ij \in OutDepIdx : OutDep(ij).isExternal /\ ~OutDep(ij).isUnresolved

\* The local prefixes the analyzer of the language records for the tree
RecordedPrefixes ==
    IF lang = "kotlin"
    THEN buildPackagePrefixes(buildPackageIndex(buildFileData(KtFindSourceFiles(files))))
    ELSE buildTopLevelPackages(PyBuildModuleIndex(PyFindSourceFiles(files)))

RootSegment(name) == Split(name, ".")[1]

\* The dotted name an import that was not found stands for: its target,
\* without the .* of a Kotlin star import
ImportedName(d) ==
    IF lang = "kotlin" /\ EndsWith(d.to, <<".", "*">>) THEN SubSeq(d.to, 1, Len(d.to) - 2)
    ELSE d.to

UnderPrefix(name, prefix) == name = prefix \/ StartsWith(name, prefix \o <<".">>)

\* C7 as claimed: in Kotlin and Python an import that was not found is
\* local-unresolved only if its root segment is a recorded local prefix, and
\* is external when the root segment is not one.
C7_RootSegmentDecides ==
    (analyzed /\ lang \in {"kotlin", "python"}) =>
        \A ij \in OutDepIdx :
            ~LocalResolved(OutDep(ij)) =>
                /\ OutDep(ij).isUnresolved =>
                      RootSegment(ImportedName(OutDep(ij))) \in RecordedPrefixes
                /\ RootSegment(ImportedName(OutDep(ij))) \notin RecordedPrefixes =>
                      OutDep(ij).isExternal /\ ~OutDep(ij).isUnresolved

\* C7 amended: in Kotlin and Python an import that was not found is
\* local-unresolved exactly when it equals a recorded local prefix or begins
\* with one followed by a dot, and external otherwise. The Python prefixes are
\* root segments; the Kotlin ones are package names and their first two
\* segments, so the root segment alone does not decide there.
C7_RecordedPrefixDecides ==
    (analyzed /\ lang \in {"kotlin", "python"}) =>
        \A ij \in OutDepIdx :
            ~LocalResolved(OutDep(ij)) =>
                /\ OutDep(ij).isUnresolved <=>
                      \E prefix \in RecordedPrefixes : UnderPrefix(ImportedName(OutDep(ij)), prefix)
                /\ OutDep(ij).isExternal <=> ~OutDep(ij).isUnresolved

\* C7 witness: a Kotlin import is local-unresolved under a recorded prefix
\* of two segments although its root segment is not recorded, beside an
\* external import with the same root segment.
C7_Witness ==
    /\ analyzed /\ lang = "kotlin"
    /\ \E ij \in OutDepIdx :
          /\ OutDep(ij).isUnresolved
          /\ RootSegment(ImportedName(OutDep(ij))) \notin RecordedPrefixes
          /\ \E kl \in OutDepIdx :
                /\ OutDep(kl).isExternal
                /\ RootSegment(ImportedName(OutDep(kl))) = RootSegment(ImportedName(OutDep(ij)))

\* Python drops a comment from # to the end of the line (an import statement
\* holds no string literal)
StripComment(line) ==
    IF \E i \in 1..Len(line) : line[i] = "#"
    THEN SubSeq(line, 1, Min({i \in 1..Len(line) : line[i] = "#"}) - 1)
    ELSE line

ParenBalance(line) == CountChar(StripComment(line), "(") - CountChar(StripComment(line), ")")

\* The line on which the parenthesis opened on line i closes
RECURSIVE ClosingLine(_, _, _)
ClosingLine(lines, j, depth) ==
    IF j > Len(lines) THEN Len(lines)
    ELSE IF depth + ParenBalance(lines[j]) <= 0 THEN j
    ELSE ClosingLine(lines, j + 1, depth + ParenBalance(lines[j]))

\* The single-line statement `from M import names` equivalent to the
\* parenthesized statement on the lines i..e
OneLineFromImport(lines, i, e) ==
    LET joined == Join([k \in 1..(e - i + 1) |-> Trim(StripComment(lines[i + k - 1]))], <<" ">>)
        flat == Trim(CollapseSpaces(RemoveChars(joined, {"(", ")"})))
    IN  IF flat # <<>> /\ flat[Len(flat)] = "," THEN Trim(SubSeq(flat, 1, Len(flat) - 1))
        ELSE flat

\* The lines of a file with each parenthesized from-import that spans
\* several lines replaced by its single-line equivalent
RECURSIVE SingleLineLines(_, _)
SingleLineLines(lines, i) ==
    IF i > Len(lines) THEN <<>>
    ELSE IF StartsWith(Trim(lines[i]), <<"f","r","o","m"," ">>) /\ ParenBalance(lines[i]) > 0
    THEN <<OneLineFromImport(lines, i, ClosingLine(lines, i + 1, ParenBalance(lines[i])))>>
         \o SingleLineLines(lines, ClosingLine(lines, i + 1, ParenBalance(lines[i])) + 1)
    ELSE <<lines[i]>> \o SingleLineLines(lines, i + 1)

SingleLineForm(content) == Lines(SingleLineLines(Split(content, "\n"), 1))

Classified(module) ==
    {<<module.dependencies[k].to, module.dependencies[k].isExternal,
       module.dependencies[k].isUnresolved>> : k \in 1..Len(module.dependencies)}

\* C9: a Python file with a parenthesized from-import spread over several
\* lines (trailing comma, blank line, inline comment of any text) gets
\* dependencies with the same targets and classification as the file with
\* the equivalent single-line statement in its place, the statements after
\* the closing parenthesis included.
C9_MultiLineAsSingleLine ==
    (analyzed /\ lang = "python") =>
        LET single == PyAnalyzeDirectory(
                [k \in 1..Len(files) |-> File(files[k].path, SingleLineForm(files[k].content))])
        IN  \A i \in 1..Len(out) : Classified(out[i]) = Classified(single[i])

\* The directory of a file, as a path
DirOf(p) == Join(DirNames(p), <<"/">>)

\* C10: in a Python file P/__init__.py, `from .m import x` and
\* `from .m import *` resolve to the analyzed file P/m.py, local-resolved.
C10_InitRelativeImportInOwnPackage ==
    (analyzed /\ lang = "python") =>
        \A ij \in OutDepIdx :
            LET path == out[ij[1]].path
                head == FromHead(OutDep(ij).importStatement)
                m == Drop(head.spec, 1)
                target == DirOf(path) \o <<"/">> \o m \o <<".","p","y">>
            IN  (/\ BaseName(path) = <<"_","_","i","n","i","t","_","_",".","p","y">>
                 /\ head.ok /\ StartsWith(head.spec, <<".">>)
                 /\ m # <<>> /\ \A k \in 1..Len(m) : IsWordChar(m[k])
                 /\ target \in AnalyzedPaths)
                => OutDep(ij).to = target /\ LocalResolved(OutDep(ij))


-----------------------------------------------------------------------------
(* Python relative imports that ascend beyond the package path.            *)

\* The number of leading dots of a module spec
LeadingDots(moduleSpec) == LeadingRun(moduleSpec, {"."})

\* A from-import statement of the file at path whose leading dots ask for
\* more parent levels than the package path of the file has segments
OverAscent(path, statement) ==
    /\ FromHead(statement).ok
    /\ LeadingDots(FromHead(statement).spec) - 1 > Len(DirNames(path))

\* The lines of the file of the tree at a path
SourceLines(path) ==
    Split(files[CHOOSE n \in 1..Len(files) : files[n].path = path].content, "\n")

\* The from-import lines of the analyzed Python files that ascend too far,
\* as <<module, line number>>
OverAscentLines ==
    UNION {{<<i, k>> : k \in {l \in 1..Len(SourceLines(out[i].path)) :
                                OverAscent(out[i].path, Trim(SourceLines(out[i].path)[l]))}}
           : i \in 1..Len(out)}

DepsOfLine(ik) ==
    {j \in 1..Len(out[ik[1]].dependencies) : out[ik[1]].dependencies[j].importLine = ik[2]}

\* C11 as claimed: a Python relative import whose leading dots ask for more
\* parent levels than the importing file's package path has is
\* local-unresolved (isUnresolved true, isExternal false) with the raw module
\* text as target.
C11_OverAscentIsUnresolved ==
    (analyzed /\ lang = "python") =>
        \A ik \in OverAscentLines : \A j \in DepsOfLine(ik) :
            LET d == out[ik[1]].dependencies[j]
            IN  /\ d.isUnresolved /\ ~d.isExternal
                /\ d.to = FromHead(d.importStatement).spec

\* C11 amended: such an import yields exactly one dependency, classified
\* external (isExternal true, isUnresolved false), with the raw module spec
\* (dots included) as target.
C11_OverAscentIsExternal ==
    (analyzed /\ lang = "python") =>
        \A ik \in OverAscentLines :
            /\ Cardinality(DepsOfLine(ik)) = 1
            /\ \A j \in DepsOfLine(ik) :
                  LET d == out[ik[1]].dependencies[j]
                  IN  /\ d.isExternal /\ ~d.isUnresolved
                      /\ d.to = FromHead(d.importStatement).spec
                      /\ LeadingDots(d.to) >= 2

\* C11 witness: an analyzed Python file holds a from-import that ascends
\* too far, and a dependency was returned for it.
C11_Witness ==
    /\ analyzed /\ lang = "python"
    /\ \E ik \in OverAscentLines : DepsOfLine(ik) # {}


-----------------------------------------------------------------------------
(* ImportGraphAnalyzer, the analyzer of TypeScript and JavaScript.         *)

\* A dependency as analyzeFile pushes it: isExternal and isUnresolved are
\* not set (undefined, which every test of the rule engine reads as false)
TsDependency(from, to, line, stmt) == Dependency(from, to, line, stmt, FALSE, FALSE)

\* path.extname(name): from the last dot on, empty without a dot or when the
\* only dot leads the name
ExtName(name) ==
    LET dots == {i \in 2..Len(name) : name[i] = "."}
    IN  IF dots = {} THEN <<>> ELSE SubSeq(name, Max(dots), Len(name))

\* The walk keeps the files with a source extension that are not .test.ts or
\* .test.tsx files, outside node_modules, dist and build, in the order of the
\* listing
TsFindSourceFiles(tree) ==
    SelectSeq(tree, LAMBDA f :
        /\ \A k \in 1..Len(DirNames(f.path)) :
              DirNames(f.path)[k] \notin {<<"n","o","d","e","_","m","o","d","u","l","e","s">>, <<"d","i","s","t">>, <<"b","u","i","l","d">>}
        /\ ExtName(BaseName(f.path)) \in {<<".","t","s">>, <<".","t","s","x">>, <<".","j","s">>, <<".","j","s","x">>}
        /\ ~EndsWith(BaseName(f.path), <<".","t","e","s","t",".","t","s">>)
        /\ ~EndsWith(BaseName(f.path), <<".","t","e","s","t",".","t","s","x">>))

\* path.resolve(fromDir, importPath) followed by path.relative(rootDir, _),
\* on path segments. The root is a directory directly under the filesystem
\* root: a path that leaves it is "..", followed by what it names there
RECURSIVE TsResolveSegments(_, _)
TsResolveSegments(base, segments) ==
    IF segments = <<>> THEN base
    ELSE LET seg == Head(segments)
             up == IF base = <<>> THEN <<<<".",".">>>>
                   ELSE IF base = <<<<".",".">>>> THEN base
                   ELSE SubSeq(base, 1, Len(base) - 1)
         IN  TsResolveSegments(IF seg = <<>> \/ seg = <<".">> THEN base
                               ELSE IF seg = <<".",".">> THEN up
                               ELSE base \o <<seg>>,
                               Tail(segments))

TsResolved(importPath, fromFile) ==
    Join(TsResolveSegments(IF StartsWith(importPath, <<"/">>) THEN <<<<".",".">>>>
                           ELSE DirNames(fromFile),
                           Split(importPath, "/")), <<"/">>)

\* fs.existsSync of a path relative to the root: the files of the tree
TsExists(tree, p) == \E n \in 1..Len(tree) : tree[n].path = p

TsExtensions == <<<<".","t","s">>, <<".","t","s","x">>, <<".","j","s">>, <<".","j","s","x">>, <<".","d",".","t","s">>>>

TsResolveImportPath(tree, importPath, fromFile) ==
    LET resolved == TsResolved(importPath, fromFile)
        withExt == SelectSeq(TsExtensions, LAMBDA ext : TsExists(tree, resolved \o ext))
        indexFile(ext) == (IF resolved = <<>> THEN <<>> ELSE resolved \o <<"/">>)
                          \o <<"i","n","d","e","x">> \o ext
        withIndex == SelectSeq(TsExtensions, LAMBDA ext : TsExists(tree, indexFile(ext)))
    IN  IF ~StartsWith(importPath, <<".">>) /\ ~StartsWith(importPath, <<"/">>) THEN importPath
        ELSE IF withExt # <<>> THEN resolved \o withExt[1]
        ELSE IF withIndex # <<>> THEN indexFile(withIndex[1])
        ELSE resolved

\* The string literal that ends an import declaration: the text between the
\* first quote of the line and the next quote of the same kind; closed is
\* false when the literal is not terminated
TsSourceLiteral(line) ==
    LET quotes == {i \in 1..Len(line) : line[i] \in {"'", "\""}}
        q1 == Min(quotes)
        closing == {i \in quotes : i > q1 /\ line[i] = line[q1]}
    IN  IF quotes = {} \/ closing = {} THEN [closed |-> FALSE, value |-> <<>>]
        ELSE [closed |-> TRUE, value |-> SubSeq(line, q1 + 1, Min(closing) - 1)]

\* A line that holds an ImportDeclaration: import '<source>' or
\* import <clause> from '<source>'
TsIsImport(line) ==
    /\ StartsWith(Trim(line), <<"i","m","p","o","r","t">>)
    /\ Len(Trim(line)) > 6
    /\ ~IsWordChar(Trim(line)[7])

\* parse(content) throws on an import declaration whose string literal is
\* not terminated
TsParseThrows(lines) ==
    \E i \in 1..Len(lines) : TsIsImport(lines[i]) /\ ~TsSourceLiteral(lines[i]).closed

\* The name an export declaration of a line pushes, empty for none:
\* export const|let|var x, export [async] function f, export class C,
\* export default
TsExportedName(line) ==
    LET t == Trim(line)
        afterExport == Drop(t, 6 + LeadingSpaces(Drop(t, 6)))
        keywords == <<<<"c","o","n","s","t">>, <<"l","e","t">>, <<"v","a","r">>, <<"a","s","y","n","c"," ","f","u","n","c","t","i","o","n">>, <<"f","u","n","c","t","i","o","n">>, <<"c","l","a","s","s">>>>
        hits == SelectSeq(keywords, LAMBDA kw :
                    /\ StartsWith(afterExport, kw)
                    /\ LeadingSpaces(Drop(afterExport, Len(kw))) >= 1)
        afterKeyword == Drop(afterExport, Len(hits[1]))
        rest == Drop(afterKeyword, LeadingSpaces(afterKeyword))
    IN  IF ~(StartsWith(t, <<"e","x","p","o","r","t">>) /\ LeadingSpaces(Drop(t, 6)) >= 1) THEN <<>>
        ELSE IF StartsWith(afterExport, <<"d","e","f","a","u","l","t">>) /\ ~IsWordChar((afterExport \o <<" ">>)[8])
        THEN <<"d","e","f","a","u","l","t">>
        ELSE IF hits = <<>> THEN <<>>
        ELSE SubSeq(rest, 1, LeadingRun(rest, WordChars \cup {"$"}))

TsAnalyzeFile(tree, file) ==
    LET lines == Split(file.content, "\n")
        imports == SelectSeq(Indexes(lines), LAMBDA i :
                       TsIsImport(lines[i]) /\ TsSourceLiteral(lines[i]).value # <<>>)
    IN  [path |-> file.path,
         dependencies |->
            IF TsParseThrows(lines) THEN <<>>
            ELSE [k \in 1..Len(imports) |->
                     TsDependency(file.path,
                                  TsResolveImportPath(tree, TsSourceLiteral(lines[imports[k]]).value,
                                                      file.path),
                                  imports[k], lines[imports[k]])],
         exports |->
            IF TsParseThrows(lines) THEN <<>>
            ELSE NonEmpty([i \in 1..Len(lines) |-> TsExportedName(lines[i])])]

\* The modules analyzeDirectory returns, in the order of the walk
TsAnalyzeDirectory(tree) ==
    LET srcFiles == TsFindSourceFiles(tree)
    IN  [i \in 1..Len(srcFiles) |-> TsAnalyzeFile(tree, srcFiles[i])]


-----------------------------------------------------------------------------
(* ArcLint.lint: the analyzer of the configured language, then the rules.  *)

\* A TypeScript/JavaScript project: ui/view.js with the varied import lines,
\* the modules of business, a test file and an installed package
TsTree(imports) ==
    << File(<<"u","i","/","v","i","e","w",".","j","s">>, Lines(imports \o <<<<"e","x","p","o","r","t"," ","c","o","n","s","t"," ","v","i","e","w"," ","="," ","(",")"," ","=",">"," ","1",";">>>>)),
       File(<<"b","u","s","i","n","e","s","s","/","u","s","e","C","a","s","e",".","j","s">>, Lines(<<<<"i","m","p","o","r","t"," ","{"," ","v","i","e","w"," ","}"," ","f","r","o","m"," ","'",".",".","/","u","i","/","v","i","e","w",".","j","s","'",";">>,
                                            <<"e","x","p","o","r","t"," ","f","u","n","c","t","i","o","n"," ","c","a","l","c","u","l","a","t","e","T","o","t","a","l","(",")"," ","{","}">>>>)),
       File(<<"b","u","s","i","n","e","s","s","/","i","n","d","e","x",".","t","s">>, Lines(<<<<"e","x","p","o","r","t"," ","{"," ","c","a","l","c","u","l","a","t","e","T","o","t","a","l"," ","}"," ","f","r","o","m"," ","'",".","/","u","s","e","C","a","s","e","'",";">>,
                                          <<"e","x","p","o","r","t"," ","d","e","f","a","u","l","t"," ","1">>>>)),
       File(<<"b","u","s","i","n","e","s","s","/","u","s","e","C","a","s","e",".","t","e","s","t",".","t","s">>, <<"i","m","p","o","r","t"," ","'",".","/","u","s","e","C","a","s","e","'">>),
       File(<<"n","o","d","e","_","m","o","d","u","l","e","s","/","r","e","a","c","t","/","i","n","d","e","x",".","j","s">>, <<"e","x","p","o","r","t"," ","d","e","f","a","u","l","t"," ","{","}">>) >>

TsImportChoices ==
    {<<"i","m","p","o","r","t"," ","{"," ","m","i","s","s","i","n","g"," ","}"," ","f","r","o","m"," ","'",".","/","m","i","s","s","i","n","g",".","j","s","'",";">>, <<"i","m","p","o","r","t"," ","{"," ","c","a","l","c","u","l","a","t","e","T","o","t","a","l"," ","}"," ","f","r","o","m"," ","'",".",".","/","b","u","s","i","n","e","s","s","/","u","s","e","C","a","s","e",".","j","s","'",";">>,
     <<"i","m","p","o","r","t"," ","{"," ","c","a","l","c","u","l","a","t","e","T","o","t","a","l"," ","}"," ","f","r","o","m"," ","\"",".",".","/","b","u","s","i","n","e","s","s","/","u","s","e","C","a","s","e","\"">>, <<"i","m","p","o","r","t"," ","b"," ","f","r","o","m"," ","'",".",".","/","b","u","s","i","n","e","s","s","'">>,
     <<"i","m","p","o","r","t"," ","R","e","a","c","t"," ","f","r","o","m"," ","'","r","e","a","c","t","'",";">>, <<"i","m","p","o","r","t"," ","'","@","s","c","o","p","e","/","p","k","g","/","s","u","b","'">>,
     <<"i","m","p","o","r","t"," ","g","o","n","e"," ","f","r","o","m"," ","'",".",".","/","g","o","n","e","/","m","o","d","'">>, <<"/","/"," ","i","m","p","o","r","t"," ","x"," ","f","r","o","m"," ","'",".","/","c","o","m","m","e","n","t","e","d","'">>}

\* The module an analyzer returns, as the rule engine reads it: without layer
AsEngineModule(module) ==
    [field \in DOMAIN module \cup {"layer"} |->
        IF field = "layer" THEN NoLayer ELSE module[field]]

\* createAnalyzer(config.language).analyzeDirectory(rootDir, rootDir)
createAnalyzer(language, tree) ==
    IF language = "swift" THEN SwAnalyzeDirectory(tree)
    ELSE IF language = "python" THEN PyAnalyzeDirectory(tree)
    ELSE TsAnalyzeDirectory(tree)

LintConfig(language, layers, rules, ignore) ==
    [language |-> language, layers |-> layers, rules |-> rules, ignore |-> ignore]

PyLintLayers ==
    << LayerDef("view", <<"*","*","/","v","/","*","*">>, <<>>, <<>>),
       LayerDef("data", <<"*","*","/","s","/","*","*">>, <<"view">>, <<>>) >>

TsLintLayers ==
    << LayerDef("ui", <<"*","*","/","u","i","/","*","*">>, <<"business">>, <<>>),
       LayerDef("business", <<"*","*","/","b","u","s","i","n","e","s","s","/","*","*">>, <<>>, <<>>) >>

\* The ignore lists of the configurations: none, the folder of the varied
\* file, and two entries of which the second names the varied file
PyIgnoreLists == {<<>>, <<<<"*","*","/","v","/","*","*">>>>, <<<<"*","*","/","l","e","g","a","c","y","/","*","*">>, <<"p","/","v","/","*",".","p","y">>>>}

TsIgnoreLists == {<<>>, <<<<"*","*","/","u","i","/","*","*">>>>, <<<<"*","*","/","*",".","t","e","s","t",".","t","s">>, <<"*","*","/","g","e","n","e","r","a","t","e","d","/","*","*">>>>}

-----------------------------------------------------------------------------
(* Swift views under lint.                                                 *)

\* Lines with a networking call, a JSON decoding call and an aggregation
\* with arithmetic
SwConstructs ==
    {<<" "," "," "," ","U","R","L","S","e","s","s","i","o","n",".","s","h","a","r","e","d",".","d","a","t","a","T","a","s","k","(","w","i","t","h",":"," ","u",")"," ","{"," ","d",","," ","_",","," ","_"," ","i","n"," ","}",".","r","e","s","u","m","e","(",")">>,
     <<" "," "," "," ","l","e","t"," ","r"," ","="," ","U","R","L","R","e","q","u","e","s","t","(","u","r","l",":"," ","u",")">>,
     <<" "," "," "," ","_"," ","="," ","t","r","y","?"," ","J","S","O","N","D","e","c","o","d","e","r","(",")",".","d","e","c","o","d","e","(","U",".","s","e","l","f",","," ","f","r","o","m",":"," ","d",")">>,
     <<" "," "," "," ","l","e","t"," ","t"," ","="," ","i","t","e","m","s",".","r","e","d","u","c","e","(","0",")"," ","{"," ","$","0"," ","+"," ","$","1",".","p","r","i","c","e"," ","}">>}

SwPlacements == {"inside", "outside"}

\* Shop/Views/V.swift with the construct inside the scope of the View
\* struct, or in a class of the same file outside every View scope
SwViewTree(construct, placement) ==
    LET content ==
            IF placement = "inside"
            THEN <<<<"i","m","p","o","r","t"," ","S","w","i","f","t","U","I">>, <<"s","t","r","u","c","t"," ","V",":"," ","V","i","e","w"," ","{">>, <<" "," ","f","u","n","c"," ","f","(",")"," ","{">>, construct,
                   <<" "," ","}">>, <<"}">>>>
            ELSE <<<<"i","m","p","o","r","t"," ","S","w","i","f","t","U","I">>, <<"f","i","n","a","l"," ","c","l","a","s","s"," ","M",":"," ","O","b","s","e","r","v","a","b","l","e","O","b","j","e","c","t"," ","{">>, <<" "," ","f","u","n","c"," ","f","(",")"," ","{">>,
                   construct, <<" "," ","}">>, <<"}">>, <<"s","t","r","u","c","t"," ","V",":"," ","V","i","e","w"," ","{">>,
                   <<" "," ","v","a","r"," ","b","o","d","y",":"," ","s","o","m","e"," ","V","i","e","w"," ","{"," ","T","e","x","t","(","\"","x","\"",")"," ","}">>, <<"}">>>>
    IN  << File(<<"S","h","o","p","/","V","i","e","w","s","/","V",".","s","w","i","f","t">>, Lines(content)),
           File(<<"S","h","o","p","/","M","o","d","e","l","s","/","U",".","s","w","i","f","t">>, <<"s","t","r","u","c","t"," ","U",":"," ","D","e","c","o","d","a","b","l","e"," ","{","}">>) >>

SwLintLayers ==
    << LayerDef("view", <<"*","*","/","V","i","e","w","s","/","*","*">>, <<"viewmodel">>, <<>>),
       LayerDef("viewmodel", <<"*","*","/","V","i","e","w","M","o","d","e","l","s","/","*","*">>, <<"model">>, <<>>),
       LayerDef("model", <<"*","*","/","M","o","d","e","l","s","/","*","*">>, <<>>, <<>>) >>

SwIgnoreLists == {<<<<"*","*","/","T","e","s","t","s","/","*","*">>>>, <<<<"*","*","/","M","o","d","e","l","s","/","*","*">>>>}

\* A loaded configuration and the project under the root
InitLint ==
    /\ phase = "configured"
    /\ ToolsIdle
    /\ layerMap = <<>> /\ modules = <<>> /\ modulesWithLayers = <<>> /\ result = NoResult
    /\ analyzed = FALSE /\ out = <<>>
    /\ registry = <<>> /\ unreadable = {} /\ rejected = FALSE
    /\ \/ /\ \E ignore \in PyIgnoreLists :
                config = LintConfig("python", PyLintLayers, Rules("true", "true", "true"), ignore)
          /\ \E statement \in PySimple, follower \in PyFollowers :
                files = PyTree(<<>>, Lines(<<statement>> \o follower))
       \/ /\ \E ignore \in TsIgnoreLists, language \in {"typescript", "javascript"} :
                config = LintConfig(language, TsLintLayers,
                                    Rules("true", "false", "false"), ignore)
          /\ \E imports \in ImportLists(TsImportChoices) : files = TsTree(imports)
       \/ /\ \E ignore \in SwIgnoreLists :
                config = LintConfig("swift", SwLintLayers, Rules("true", "false", "true"), ignore)
          /\ \E construct \in SwConstructs, placement \in SwPlacements :
                files = SwViewTree(construct, placement)
    /\ lang = config.language

\* lint(configPath, rootDir), the configuration loaded
Lint ==
    /\ phase = "configured"
    /\ out' = createAnalyzer(config.language, files)
    /\ registry' = RegistrySetAll(<<>>, out')
    /\ analyzed' = TRUE
    /\ layerMap' = BuildLayerMap(config.layers)
    /\ modules' = [i \in 1..Len(out') |-> AsEngineModule(out'[i])]
    /\ modulesWithLayers' = assignLayersToModules(config.layers, modules')
    /\ result' = analyze(config, layerMap', modules', modulesWithLayers')
    /\ phase' = "analyzed"
    /\ UNCHANGED <<config, lang, files, unreadable, rejected, sanitizer, editor>>

NextLint == Lint

SpecLint == InitLint /\ [][NextLint]_vars

\* The files of the project that an entry of the ignore list matches
IgnoredPaths ==
    {files[n].path : n \in {n \in 1..Len(files) :
        \E k \in 1..Len(config.ignore) :
            matchGlob(NormalizeSlashes(files[n].path), NormalizeSlashes(config.ignore[k]))}}

\* C12: after lint, no file that an entry of the ignore list matches is
\* among the analyzed modules, and no violation of the result has such a
\* file as its filePath.
C12_IgnoredFilesNotAnalyzed ==
    (phase = "analyzed" /\ analyzed) =>
        /\ \A i \in 1..Len(modules) : modules[i].path \notin IgnoredPaths
        /\ \A k \in 1..Len(result.violations) :
              result.violations[k].filePath \notin IgnoredPaths


-----------------------------------------------------------------------------
(* The rule flags of the configuration.                                    *)

RuleIds ==
    {"unresolved-import", "dependency-direction", "circular-dependency",
     "business-logic-placement", "kotlin-architecture-anti-pattern"}

\* The flags of config.rules
RuleFlags == {"enforceLayerBoundaries", "preventCircularDependencies", "businessLogicInDomain"}

\* C13 as claimed: each of the five checks has a flag of the configuration
\* that, set to false, leaves the result without a violation of that check.
C13_EveryCheckHasAFlag ==
    Analyzed =>
        \A ruleId \in RuleIds :
            \E flag \in RuleFlags :
                config.rules[flag] = "false" => ViolationsOf(ruleId) = <<>>

\* C13 amended: the dependency-direction, circular-dependency and
\* business-logic-placement checks report nothing when their flag
\* (enforceLayerBoundaries, preventCircularDependencies,
\* businessLogicInDomain) is false; the unresolved-import check reports one
\* violation per unresolved dependency whatever the flags are, and the
\* Kotlin anti-pattern check reports whatever the flags are when the
\* language is kotlin, and nothing for another language.
C13_ThreeChecksHaveAFlag ==
    Analyzed =>
        /\ config.rules.enforceLayerBoundaries = "false"
              => ViolationsOf("dependency-direction") = <<>>
        /\ config.rules.preventCircularDependencies = "false"
              => ViolationsOf("circular-dependency") = <<>>
        /\ config.rules.businessLogicInDomain = "false"
              => ViolationsOf("business-logic-placement") = <<>>
        /\ Len(ViolationsOf("unresolved-import"))
              = Cardinality({ij \in DepIdx : ReportedUnresolved(DepAt(ij))})
        /\ ViolationsOf("kotlin-architecture-anti-pattern")
              = IF config.language = "kotlin"
                THEN checkKotlinArchitectureAntiPatterns(modulesWithLayers) ELSE <<>>

\* C13 witness: with the three flags false, a module list with a cycle, an
\* import against the allow-list and a keyword export in the view layer
\* gets unresolved-import and Kotlin anti-pattern violations and no other.
C13_Witness ==
    /\ Analyzed
    /\ \A flag \in RuleFlags : config.rules[flag] = "false"
    /\ HasCycle
    /\ \E ij \in DepIdx : Offending(ij)
    /\ checkBusinessLogicPlacement(modulesWithLayers) # <<>>
    /\ ViolationsOf("unresolved-import") # <<>>
    /\ ViolationsOf("kotlin-architecture-anti-pattern") # <<>>
    /\ \A k \in 1..Len(result.violations) :
          result.violations[k].ruleId
              \in {"unresolved-import", "kotlin-architecture-anti-pattern"}


-----------------------------------------------------------------------------
(* The lexical parsers on comments, string literals, nested declarations   *)
(* and files that share an index key.                                      *)

\* A statement inside a comment or a string literal, per language: the
\* lines that wrap the hidden statement
PyWrappers(hidden) ==
    { <<<<"#"," ">> \o hidden>>,
      <<<<" "," "," "," ","#"," ">> \o hidden>>,
      <<<<"s"," ","="," ","\"">> \o hidden \o <<"\"">>>>,
      <<<<"\"","\"","\"">>, hidden, <<"\"","\"","\"">>>>,
      <<<<"s"," ","="," ","'","'","'">>, hidden, <<"'","'","'">>>> }

KtWrappers(hidden) ==
    { <<<<"/","/"," ">> \o hidden>>,
      <<<<"/","*"," ">> \o hidden \o <<" ","*","/">>>>,
      <<<<"/","*">>, hidden, <<"*","/">>>>,
      <<<<"/","*"," ","a"," ","/","*"," ","b"," ","*","/">>, hidden, <<"*","/">>>>,
      <<<<"v","a","l"," ","s"," ","="," ","\"","\"","\"">>, hidden, <<"\"","\"","\"">>>> }

SwWrappers(hidden) ==
    { <<<<"/","/"," ">> \o hidden>>,
      <<<<"/","*"," ">> \o hidden \o <<" ","*","/">>>>,
      <<<<"/","*">>, hidden, <<"*","/">>>>,
      <<<<"l","e","t"," ","s"," ","="," ","\"","\"","\"">>, hidden, <<"\"","\"","\"">>>> }

PyHidden == {<<"i","m","p","o","r","t"," ","h","i","d">>, <<"f","r","o","m"," ","h","i","d"," ","i","m","p","o","r","t"," ","a">>}

KtHidden == {<<"i","m","p","o","r","t"," ","h","i","d",".","H">>, <<"i","m","p","o","r","t"," ","h","i","d",".","*">>}

SwHidden == {<<"i","m","p","o","r","t"," ","H","i","d">>, <<" "," ","i","m","p","o","r","t"," ","H","i","d">>}

\* Declarations of a file: top-level ones, and nested ones whose names are
\* the NestedNames
PyDeclarations ==
    { <<<<"d","e","f"," ","t","o","p","(",")",":">>, <<" "," "," "," ","d","e","f"," ","i","n","n","e","r","(",")",":">>, <<" "," "," "," "," "," "," "," ","p","a","s","s">>>>,
      <<<<"c","l","a","s","s"," ","K",":">>, <<" "," "," "," ","d","e","f"," ","m","e","t","h","o","d","(","s","e","l","f",")",":">>, <<" "," "," "," "," "," "," "," ","p","a","s","s">>>>,
      <<<<"d","e","f"," ","t","o","p","(","a",")",":">>, <<" "," "," "," ","r","e","t","u","r","n"," ","a">>>> }

KtDeclarations ==
    { <<<<"c","l","a","s","s"," ","K"," ","{">>, <<" "," ","f","u","n"," ","i","n","n","e","r","(",")"," ","{","}">>, <<" "," ","c","l","a","s","s"," ","N","e","s","t","e","d">>, <<"}">>>>,
      <<<<"f","u","n"," ","t","o","p","(",")"," ","{">>, <<" "," ","f","u","n"," ","l","o","c","a","l","(",")"," ","{","}">>, <<"}">>>> }

\* Kotlin declarations with and without a visibility modifier of their own
KtVisibility ==
    { <<<<"c","l","a","s","s"," ","R","(","p","r","i","v","a","t","e"," ","v","a","l"," ","d",":"," ","D",")">>, <<"p","r","i","v","a","t","e"," ","c","l","a","s","s"," ","H","i","d","d","e","n">>>>,
      <<<<"c","l","a","s","s"," ","P"," ","{">>, <<" "," ","p","r","i","v","a","t","e"," ","f","u","n"," ","i","n","n","e","r","(",")"," ","{","}">>, <<"}">>, <<"i","n","t","e","r","n","a","l"," ","o","b","j","e","c","t"," ","R","e","g">>>>,
      <<<<"p","r","o","t","e","c","t","e","d"," ","o","p","e","n"," ","c","l","a","s","s"," ","B","a","s","e">>, <<"p","u","b","l","i","c"," ","f","u","n"," ","r","u","n","(",")"," ","{","}"," ","/","/"," ","p","r","i","v","a","t","e">>>>,
      <<<<"f","u","n"," ","f","(","p","r","o","t","e","c","t","e","d",":"," ","I","n","t",")"," ","{","}">>, <<"p","r","i","v","a","t","e"," ","t","y","p","e","a","l","i","a","s"," ","T"," ","="," ","I","n","t">>>>,
      <<<<"c","l","a","s","s"," ","Q">>, <<"p","r","i","v","a","t","e"," ","i","n","t","e","r","f","a","c","e"," ","I">>, <<"p","r","o","t","e","c","t","e","d"," ","o","b","j","e","c","t"," ","O">>>> }

SwDeclarations ==
    { <<<<"s","t","r","u","c","t"," ","K"," ","{">>, <<" "," ","e","n","u","m"," ","N","e","s","t","e","d"," ","{"," ","c","a","s","e"," ","a"," ","}">>, <<"}">>>>,
      <<<<"c","l","a","s","s"," ","C"," ","{">>, <<" "," ","f","u","n","c"," ","f","(",")"," ","{">>, <<" "," "," "," ","s","t","r","u","c","t"," ","L","o","c","a","l"," ","{","}">>, <<" "," ","}">>, <<"}">>>>,
      <<<<"s","t","r","u","c","t"," ","O","n","l","y"," ","{","}">>>> }

NestedNames == {<<"i","n","n","e","r">>, <<"m","e","t","h","o","d">>, <<"N","e","s","t","e","d">>, <<"l","o","c","a","l">>, <<"L","o","c","a","l">>}

\* A Python project where the package p/x and the module p/x.py both have
\* the module name p.x; the directory x is listed before the file x.py
PyLexTree(body) ==
    << File(<<"p","/","_","_","i","n","i","t","_","_",".","p","y">>, <<>>),
       File(<<"p","/","x","/","_","_","i","n","i","t","_","_",".","p","y">>, <<>>),
       File(<<"p","/","x",".","p","y">>, <<"d","e","f"," ","g","(",")",":","\n"," "," "," "," ","p","a","s","s">>),
       File(<<"p","/","m",".","p","y">>, Lines(body \o <<<<"i","m","p","o","r","t"," ","p",".","x">>>>)) >>

\* A Kotlin project where a/D.kt and b/D.kt both declare com.ex.d.D
KtLexTree(body) ==
    << File(<<"a","/","D",".","k","t">>, <<"p","a","c","k","a","g","e"," ","c","o","m",".","e","x",".","d","\n","c","l","a","s","s"," ","D">>),
       File(<<"b","/","D",".","k","t">>, <<"p","a","c","k","a","g","e"," ","c","o","m",".","e","x",".","d","\n","c","l","a","s","s"," ","D">>),
       File(<<"U",".","k","t">>, Lines(<<<<"p","a","c","k","a","g","e"," ","c","o","m",".","e","x",".","u">>, <<"i","m","p","o","r","t"," ","c","o","m",".","e","x",".","d",".","D">>>> \o body)) >>

\* A Swift package where two files belong to the module Core
SwLexTree(body) ==
    << File(<<"S","o","u","r","c","e","s","/","C","o","r","e","/","A",".","s","w","i","f","t">>, <<"s","t","r","u","c","t"," ","A"," ","{","}">>),
       File(<<"S","o","u","r","c","e","s","/","C","o","r","e","/","B",".","s","w","i","f","t">>, <<"s","t","r","u","c","t"," ","B"," ","{","}">>),
       File(<<"S","o","u","r","c","e","s","/","U","I","/","V",".","s","w","i","f","t">>, Lines(<<<<"i","m","p","o","r","t"," ","C","o","r","e">>>> \o body)) >>

\* Single-line imports and the inline comments that may end them
PyCommentable ==
    {<<"i","m","p","o","r","t"," ","o","s">>, <<"i","m","p","o","r","t"," ","p",".","s",".","b">>, <<"i","m","p","o","r","t"," ","o","s",","," ","p",".","s",".","o"," ","a","s"," ","q">>, <<"f","r","o","m"," ","p",".","s"," ","i","m","p","o","r","t"," ","b">>,
     <<"f","r","o","m"," ","o","s"," ","i","m","p","o","r","t"," ","p","a","t","h">>, <<"f","r","o","m"," ",".","h"," ","i","m","p","o","r","t"," ","f">>}

PyCommentTails == {<<" "," ","#"," ","c">>, <<" ","#"," ","n","o","q","a",":"," ","F","4","0","1">>, <<"#"," ","c">>}

InitLexical ==
    /\ EngineIdle
    /\ ToolsIdle
    /\ analyzed = FALSE
    /\ out = <<>>
    /\ registry = <<>> /\ unreadable = {} /\ rejected = FALSE
    /\ \/ /\ lang = "python"
          /\ \E hidden \in PyHidden, declarations \in PyDeclarations :
                \E wrapper \in PyWrappers(hidden) :
                    files = PyLexTree(wrapper \o declarations)
       \/ /\ lang = "python"
          /\ \E statement \in PyCommentable, tail \in PyCommentTails :
                files = PyTree(<<>>, Lines(<<statement \o tail, <<"i","m","p","o","r","t"," ","p",".","s",".","o">>>>))
       \/ /\ lang = "kotlin"
          /\ \E hidden \in KtHidden, declarations \in KtDeclarations :
                \E wrapper \in KtWrappers(hidden) :
                    files = KtLexTree(wrapper \o declarations)
       \/ /\ lang = "kotlin"
          /\ \E declarations \in KtVisibility : files = KtLexTree(declarations)
       \/ /\ lang = "swift"
          /\ \E hidden \in SwHidden, declarations \in SwDeclarations :
                \E wrapper \in SwWrappers(hidden) :
                    files = SwLexTree(wrapper \o declarations)

SpecLexical == InitLexical /\ [][NextAnalyzers]_vars

\* The text names the module of the hidden statements
NamesHidden(text) == Includes(toLowerCase(text), <<"h","i","d">>)

\* C14: in the Kotlin, Python and Swift parsers an import statement inside
\* a block comment, a line comment or a string literal (one that spans
\* several lines included) produces no dependency.
C14_NoDependencyFromCommentOrString ==
    analyzed =>
        \A ij \in OutDepIdx :
            ~NamesHidden(OutDep(ij).to) /\ ~NamesHidden(OutDep(ij).importStatement)

\* C15: the exports of a module of the Kotlin, Python and Swift parsers
\* hold no declaration nested in the body of another declaration.
C15_ExportsAreTopLevel ==
    analyzed =>
        \A i \in 1..Len(out) : \A k \in 1..Len(out[i].exports) :
            out[i].exports[k] \notin NestedNames

\* The keys the files give the resolution index of the language, in the
\* order they are indexed, as <<key, path>>, and the index built from them
IndexEntries ==
    IF lang = "kotlin" THEN KtSymbolEntries(buildFileData(KtFindSourceFiles(files)))
    ELSE IF lang = "swift"
    THEN LET srcFiles == SwFindSourceFiles(files)
             named == SelectSeq(srcFiles, LAMBDA f : inferLocalModuleName(f.path) # <<>>)
         IN  [k \in 1..Len(named) |->
                 <<inferLocalModuleName(named[k].path), NormalizeSlashes(named[k].path)>>]
    ELSE LET srcFiles == PyFindSourceFiles(files)
         IN  [k \in 1..Len(srcFiles) |->
                 <<filePathToModuleName(srcFiles[k].path), NormalizeSlashes(srcFiles[k].path)>>]

ResolutionIndex ==
    IF lang = "kotlin" THEN buildSymbolIndex(buildFileData(KtFindSourceFiles(files)))
    ELSE IF lang = "swift" THEN buildLocalModuleIndex(SwFindSourceFiles(files))
    ELSE PyBuildModuleIndex(PyFindSourceFiles(files))

\* C16: in the Kotlin symbol index, the Swift local-module index and the
\* Python module index a key maps to the path of the first file indexed
\* under it, and an import of the key resolves to that file.
C16_FirstWriterWins ==
    analyzed =>
        /\ \A n \in 1..Len(IndexEntries) :
              LET key == IndexEntries[n][1]
                  first == Min({k \in 1..Len(IndexEntries) : IndexEntries[k][1] = key})
              IN  key \in DOMAIN ResolutionIndex
                  /\ ResolutionIndex[key] = IndexEntries[first][2]
        /\ \A ij \in OutDepIdx :
              LocalResolved(OutDep(ij)) =>
                  \E n \in 1..Len(IndexEntries) :
                      /\ IndexEntries[n][2] = OutDep(ij).to
                      /\ \A k \in 1..(n - 1) : IndexEntries[k][1] # IndexEntries[n][1]


-----------------------------------------------------------------------------
(* Swift UI-scope leakage.                                                 *)

\* The line of the file holds one of the three constructs
SwLeakLine(lines, i) ==
    \/ HasWord(lines[i], <<"U","R","L","S","e","s","s","i","o","n">>)
    \/ HasCall(lines[i], <<".","d","a","t","a","T","a","s","k">>, FALSE)
    \/ HasCall(lines[i], <<"U","R","L","R","e","q","u","e","s","t">>, TRUE)
    \/ HasCall(lines[i], <<"J","S","O","N","D","e","c","o","d","e","r">>, TRUE)
    \/ HasCall(lines[i], <<".","r","e","d","u","c","e">>, FALSE)

\* A construct lies between the braces of a `struct X: View` of the file
LeaksInViewScope(content) ==
    LET lines == Split(content, "\n")
        scopes == extractSwiftUIViewScopes(lines)
    IN  \E k \in 1..Len(scopes) : \E i \in scopes[k].start..scopes[k].end : SwLeakLine(lines, i)

\* The misplaced-business-logic violations of the result on the file
MisplacedLogicOn(path) ==
    SelectSeq(result.violations,
              LAMBDA v : v.filePath = path
                         /\ v.ruleId \in {"business-logic-placement",
                                          "kotlin-architecture-anti-pattern"})

\* C17: for a Swift module, the result of the analysis has a
\* misplaced-business-logic violation on the file when a networking call,
\* a JSONDecoder( call or a .reduce( with arithmetic lies inside the scope
\* of a `struct X: View`, and none when the constructs lie outside every
\* View scope.
C17_ViewScopeLeakageReported ==
    (phase = "analyzed" /\ config.language = "swift") =>
        \A n \in 1..Len(files) :
            LET path == NormalizeSlashes(files[n].path)
            IN  (\E i \in 1..Len(modules) : modules[i].path = path) =>
                    (LeaksInViewScope(files[n].content) <=> MisplacedLogicOn(path) # <<>>)


-----------------------------------------------------------------------------
(* The classification of imports by the TypeScript/JavaScript analyzer.    *)

IsRelativeSpecifier(specifier) == StartsWith(specifier, <<".">>)

IsBareSpecifier(specifier) == ~StartsWith(specifier, <<".">>) /\ ~StartsWith(specifier, <<"/">>)

\* C19: after lint of a TypeScript or JavaScript project, a dependency of a
\* relative import whose target is no file of the project is local-unresolved
\* and the result has an unresolved-import violation of severity info at its
\* file and line; a dependency of a bare specifier is external.
C19_TsImportsClassified ==
    (phase = "analyzed" /\ config.language \in {"typescript", "javascript"}) =>
        \A ij \in OutDepIdx :
            LET d == OutDep(ij)
                specifier == TsSourceLiteral(d.importStatement).value
            IN  /\ (IsRelativeSpecifier(specifier) /\ ~TsExists(files, d.to)) =>
                      /\ d.isUnresolved /\ ~d.isExternal
                      /\ \E k \in 1..Len(result.violations) :
                            /\ result.violations[k].ruleId = "unresolved-import"
                            /\ result.violations[k].severity = "info"
                            /\ result.violations[k].filePath = d.from
                            /\ result.violations[k].line = d.importLine
                /\ IsBareSpecifier(specifier) => (d.isExternal /\ ~d.isUnresolved)


-----------------------------------------------------------------------------
(* Repeated analyzeDirectory calls on one analyzer instance, on projects   *)
(* in which the listing of a directory may fail.                           *)

\* The names of the directories the walk of each analyzer does not enter
SkippedDirNames(language) ==
    IF language = "python"
    THEN {<<".","g","i","t">>, <<".","v","e","n","v">>, <<"v","e","n","v">>, <<"_","_","p","y","c","a","c","h","e","_","_">>, <<"b","u","i","l","d">>, <<"d","i","s","t">>, <<"n","o","d","e","_","m","o","d","u","l","e","s">>}
    ELSE IF language = "kotlin"
    THEN {<<".","g","i","t">>, <<".","g","r","a","d","l","e">>, <<"b","u","i","l","d">>, <<"n","o","d","e","_","m","o","d","u","l","e","s">>, <<"o","u","t">>, <<"t","a","r","g","e","t">>}
    ELSE IF language = "swift"
    THEN {<<".","b","u","i","l","d">>, <<".","g","i","t">>, <<"b","u","i","l","d">>, <<"D","e","r","i","v","e","d","D","a","t","a">>, <<"n","o","d","e","_","m","o","d","u","l","e","s">>}
    ELSE {<<"n","o","d","e","_","m","o","d","u","l","e","s">>, <<"d","i","s","t">>, <<"b","u","i","l","d">>}

\* The directories of the project, as sequences of names below the root;
\* the root is the empty sequence
AllDirs(tree) ==
    UNION {{SubSeq(DirNames(tree[n].path), 1, k) : k \in 0..Len(DirNames(tree[n].path))} :
           n \in 1..Len(tree)}

\* The directories walk(dir) lists: the root and below it every directory
\* none of whose names is skipped
WalkedDirs(tree, language) ==
    {dir \in AllDirs(tree) : \A k \in 1..Len(dir) : dir[k] \notin SkippedDirNames(language)}

\* fs.promises.readdir rejects in walk, which no walk catches
WalkThrows(tree, language, unreadableDirs) ==
    WalkedDirs(tree, language) \cap unreadableDirs # {}

\* findSourceFiles of the analyzer of the language
FindSourceFiles(language, tree) ==
    IF language = "python" THEN PyFindSourceFiles(tree)
    ELSE IF language = "kotlin" THEN KtFindSourceFiles(tree)
    ELSE IF language = "swift" THEN SwFindSourceFiles(tree)
    ELSE TsFindSourceFiles(tree)

\* The modules analyzeDirectory of the analyzer returns when the walk succeeds
AnalyzeTree(language, tree) ==
    IF language = "python" THEN PyAnalyzeDirectory(tree)
    ELSE IF language = "kotlin" THEN KtAnalyzeDirectory(tree)
    ELSE IF language = "swift" THEN SwAnalyzeDirectory(tree)
    ELSE TsAnalyzeDirectory(tree)

\* this.modules when analyzeDirectory starts to fill it: the lexical
\* analyzers clear it first, ImportGraphAnalyzer keeps what it holds
ModulesAtStart(language, reg) ==
    IF language \in {"python", "kotlin", "swift"} THEN <<>> ELSE reg

\* ImportGraphAnalyzer.buildDependencyGraph over this.modules
buildDependencyGraph(reg) ==
    LET paths == {reg[k].path : k \in 1..Len(reg)}
    IN  [p \in paths |->
            LET module == reg[CHOOSE k \in 1..Len(reg) : reg[k].path = p]
                tos == [j \in 1..Len(module.dependencies) |-> module.dependencies[j].to]
            IN  SelectSeq(tos, LAMBDA to : to \in paths)]

\* The first file of a project: the project after the other files are gone
Shrunk(tree) == SubSeq(tree, 1, 1)

\* The states of the project an analyzer instance is run on
RunTrees(language) ==
    LET full == IF language = "python"
                THEN {PyLexTree(<<>>), PyLexTree(<<<<"i","m","p","o","r","t"," ","o","s">>>>), PyLexTree(<<<<"f","r","o","m"," ","."," ","i","m","p","o","r","t"," ","x">>>>)}
                ELSE IF language = "kotlin"
                THEN {KtLexTree(<<>>), KtLexTree(<<<<"c","l","a","s","s"," ","K">>>>), KtLexTree(<<<<"i","m","p","o","r","t"," ","c","o","m",".","e","x",".","d",".","*">>>>)}
                ELSE IF language = "swift"
                THEN {SwLexTree(<<>>), SwLexTree(<<<<"i","m","p","o","r","t"," ","F","o","u","n","d","a","t","i","o","n">>>>), SwLexTree(<<<<"s","t","r","u","c","t"," ","K"," ","{","}">>>>)}
                ELSE {TsTree(<<>>), TsTree(<<<<"i","m","p","o","r","t"," ","R","e","a","c","t"," ","f","r","o","m"," ","'","r","e","a","c","t","'",";">>>>),
                      TsTree(<<<<"i","m","p","o","r","t"," ","b"," ","f","r","o","m"," ","'",".",".","/","b","u","s","i","n","e","s","s","'">>>>)}
    IN  full \cup {Shrunk(tree) : tree \in full}

\* No directory fails, or one directory of the project does
UnreadableChoices(tree) == {{}} \cup {{dir} : dir \in AllDirs(tree)}

InitRuns ==
    /\ EngineIdle
    /\ ToolsIdle
    /\ lang \in {"python", "kotlin", "swift", "typescript"}
    /\ files = <<>> /\ unreadable = {}
    /\ analyzed = FALSE /\ out = <<>> /\ registry = <<>> /\ rejected = FALSE

\* analyzer.analyzeDirectory(rootDir, rootDir) on the instance, the project
\* being in one of its states
AnalyzeDirectoryCall ==
    \E tree \in RunTrees(lang) : \E unreadableDirs \in UnreadableChoices(tree) :
        /\ files' = tree
        /\ unreadable' = unreadableDirs
        /\ analyzed' = TRUE
        /\ IF WalkThrows(tree, lang, unreadableDirs)
           THEN /\ rejected' = TRUE
                /\ out' = <<>>
                /\ registry' = ModulesAtStart(lang, registry)
           ELSE /\ rejected' = FALSE
                /\ out' = AnalyzeTree(lang, tree)
                /\ registry' = RegistrySetAll(ModulesAtStart(lang, registry), out')
        /\ UNCHANGED <<phase, config, layerMap, modules, modulesWithLayers, result, lang,
                       sanitizer, editor>>

NextRuns == AnalyzeDirectoryCall

SpecRuns == InitRuns /\ [][NextRuns]_vars

\* The files of the project outside the directories whose listing fails
ReadableTree(tree, unreadableDirs) ==
    SelectSeq(tree, LAMBDA f :
        \A k \in 0..Len(DirNames(f.path)) : SubSeq(DirNames(f.path), 1, k) \notin unreadableDirs)

\* C18: when the listing of a directory fails during the walk,
\* analyzeDirectory still returns, and returns the modules of the source
\* files outside that directory's subtree.
C18_WalkErrorNotFatal ==
    analyzed =>
        /\ ~rejected
        /\ [i \in 1..Len(out) |-> out[i].path]
             = [i \in 1..Len(FindSourceFiles(lang, ReadableTree(files, unreadable))) |->
                    NormalizeSlashes(FindSourceFiles(lang, ReadableTree(files, unreadable))[i].path)]

\* C20: after any sequence of analyzeDirectory calls on one instance, the
\* modules of getModules() and the nodes of the dependency graph built from
\* them are exactly the modules the most recent call returned.
C20_NoStateBetweenRuns ==
    (analyzed /\ ~rejected) =>
        /\ {registry[k] : k \in 1..Len(registry)} = {out[i] : i \in 1..Len(out)}
        /\ DOMAIN buildDependencyGraph(registry) = {out[i].path : i \in 1..Len(out)}


-----------------------------------------------------------------------------
(* Layer selection without explicit precedence.                            *)

\* Every definition that matches the path omits precedence
PrecedenceOmitted(layers, path) ==
    \A i \in Matching(layers, path) : layers[i].precedence = <<>>

-----------------------------------------------------------------------------
(* Inline comments on single-line Python imports.                          *)

\* The line without its comment: the text before the first '#', without
\* the spaces that end it
WithoutComment(line) ==
    LET hashes == {i \in 1..Len(line) : line[i] = "#"}
    IN  IF hashes = {} THEN line ELSE TrimEnd(SubSeq(line, 1, Min(hashes) - 1))

\* The project with the comments of every line removed
WithoutComments(tree) ==
    [n \in 1..Len(tree) |->
        File(tree[n].path,
             Lines([k \in 1..Len(Split(tree[n].content, "\n")) |->
                       WithoutComment(Split(tree[n].content, "\n")[k])]))]

\* What the claim compares of a dependency: its line, target and class
LineTargetClass(d) ==
    [importLine |-> d.importLine, to |-> d.to,
     isExternal |-> d.isExternal, isUnresolved |-> d.isUnresolved]

\* C22: the dependencies of a Python module have the same targets and the
\* same external/unresolved classification as those of the same project with
\* the trailing `# comment` of every import line removed.
C22_InlineCommentIgnored ==
    (analyzed /\ lang = "python") =>
        LET plain == PyAnalyzeDirectory(WithoutComments(files))
        IN  /\ Len(plain) = Len(out)
            /\ \A i \in 1..Len(out) :
                  [j \in 1..Len(out[i].dependencies) |-> LineTargetClass(out[i].dependencies[j])]
                    = [j \in 1..Len(plain[i].dependencies) |->
                          LineTargetClass(plain[i].dependencies[j])]


-----------------------------------------------------------------------------
(* The edges of the reported cycles.                                       *)

\* The path c0 -> c1 -> ... -> ck a circular-dependency violation reports
CyclePath(v) == v.message.strs

\* A dependency of module p that is local-resolved and targets module q
LocalEdge(p, q) ==
    \E ij \in DepIdx :
        /\ modules[ij[1]].path = p /\ DepAt(ij).to = q /\ IsModulePath(q)
        /\ LocalResolved(DepAt(ij))

\* C23: every edge of a reported cycle is a dependency between two modules
\* of the list that is flagged neither isExternal nor isUnresolved.
C23_CycleEdgesAreLocalResolved ==
    Analyzed =>
        \A k \in 1..Len(ViolationsOf("circular-dependency")) :
            LET cycle == CyclePath(ViolationsOf("circular-dependency")[k])
            IN  \A n \in 1..(Len(cycle) - 1) : LocalEdge(cycle[n], cycle[n + 1])

\* The dependencies of module p whose target is q
EdgeCount(p, q) ==
    Cardinality({ij \in DepIdx : modules[ij[1]].path = p /\ DepAt(ij).to = q})

\* The reported cycles that start at q and close with the edge p -> q
ClosingCount(p, q) ==
    Cardinality({k \in 1..Len(ViolationsOf("circular-dependency")) :
        LET cycle == CyclePath(ViolationsOf("circular-dependency")[k])
        IN  cycle[1] = q /\ cycle[Len(cycle) - 1] = p})

\* C24: every circular-dependency violation reports a closed walk c0 -> ...
\* -> ck with k >= 1 and c0 = ck whose consecutive pairs are dependencies
\* between modules of the list, as a warning on module c0 at line 1; the
\* modules before ck are distinct, and the cycles closed by the edge p -> q
\* are as many as the dependencies of p on q, or none: one per back edge.
C24_CycleReportsAreClosedWalks ==
    Analyzed =>
        /\ \A k \in 1..Len(ViolationsOf("circular-dependency")) :
              LET v == ViolationsOf("circular-dependency")[k]
                  cycle == CyclePath(v)
              IN  /\ Len(cycle) >= 2
                  /\ cycle[1] = cycle[Len(cycle)]
                  /\ \A n \in 1..(Len(cycle) - 1) : Edge(cycle[n], cycle[n + 1])
                  /\ \A n, o \in 1..(Len(cycle) - 1) : cycle[n] = cycle[o] => n = o
                  /\ v.severity = "warning" /\ v.filePath = cycle[1] /\ v.line = 1
        /\ \A p, q \in ModulePaths : ClosingCount(p, q) \in {0, EdgeCount(p, q)}
        /\ Len(ViolationsOf("circular-dependency")) <= Cardinality(DepIdx)

\* C24 witness: two violations are reported, one of them for a cycle
\* through two modules that two parallel dependencies close.
C24_Witness ==
    /\ Analyzed
    /\ \E p, q \in ModulePaths :
          p # q /\ EdgeCount(p, q) = 2 /\ ClosingCount(p, q) = 2


-----------------------------------------------------------------------------
(* The allow-list of the dependency-direction check.                       *)

\* The position in config.layers of the definition that gives module m its
\* layer: the matching definition that beats every other, 0 when none matches
SelectedDefinition(m) ==
    LET M == Matching(config.layers, modules[m].path)
    IN  IF M = {} THEN 0
        ELSE CHOOSE i \in M : \A j \in M \ {i} : Beats(config.layers, i, j)

DirectionReportedAt(path, line) ==
    \E k \in 1..Len(ViolationsOf("dependency-direction")) :
        /\ ViolationsOf("dependency-direction")[k].filePath = path
        /\ ViolationsOf("dependency-direction")[k].line = line

\* C25: a local-resolved dependency between modules of different layers is
\* reported by the dependency-direction check exactly when the canDependOn
\* list of the definition selected for the importing module lacks the layer
\* of the target.
C25_AllowListOfSelectedDefinition ==
    (Analyzed /\ RuleEnabled(config.rules.enforceLayerBoundaries)) =>
        \A ij \in DepIdx :
            LET m == ij[1]
                d == DepAt(ij)
                source == modulesWithLayers[m].layer
                target == modulesWithLayers[ModuleMapGet(modules, d.to)].layer
                allowed == config.layers[SelectedDefinition(m)].canDependOn
            IN  (/\ SelectedDefinition(m) # 0 /\ LocalResolved(d) /\ IsModulePath(d.to)
                 /\ target # NoLayer /\ target # source) =>
                    (DirectionReportedAt(modules[m].path, d.importLine)
                        <=> \A k \in 1..Len(allowed) : allowed[k] # target)


-----------------------------------------------------------------------------
(* Kotlin export visibility.                                               *)

\* The brace depth at which line k of the sanitized lines starts
RECURSIVE DepthBefore(_, _)
DepthBefore(lines, k) ==
    IF k <= 1 THEN 0
    ELSE DepthBefore(lines, k - 1)
             + CountChar(lines[k - 1], "{") - CountChar(lines[k - 1], "}")

\* The modifiers that lead the declaration of a trimmed line
LeadingModifiers(trimmed) ==
    SubSeq(trimmed, 1, Len(trimmed) - Len(SkipModifiers(trimmed)))

\* The declaration itself is marked private or protected
MarkedNonPublic(trimmed) == hasRestrictedVisibility(LeadingModifiers(trimmed))

\* C26: a top-level class, interface, object, typealias or fun declaration
\* of a Kotlin file is among the exports of its module if and only if its
\* own modifiers do not include private or protected.
C26_ExportedIffNotMarkedNonPublic ==
    (analyzed /\ lang = "kotlin") =>
        \A i \in 1..Len(out) : \A n \in 1..Len(files) :
            NormalizeSlashes(files[n].path) = out[i].path =>
                LET lines == sanitizeLinesForParsing(files[n].content)
                IN  \A k \in 1..Len(lines) :
                        (DepthBefore(lines, k) = 0 /\ KtDeclarationMatch(Trim(lines[k])) # <<>>) =>
                            ((\E e \in 1..Len(out[i].exports) :
                                  out[i].exports[e] = KtDeclarationMatch(Trim(lines[k]))[1])
                             <=> ~MarkedNonPublic(Trim(lines[k])))


-----------------------------------------------------------------------------
(* The Kotlin sanitizer, one loop iteration at a time.                     *)

MaxTokens == 4    \* pieces a sanitized content is made of

\* The pieces the sanitized contents are made of
SanitizerTokens ==
    {<<"/","*">>, <<"*","/">>, <<"\"","\"","\"">>, <<"\"">>, <<"'">>, <<"\\">>, <<"/">>, <<"x">>, <<"\n">>}

SanitizerContents == {Flatten(tokens) : tokens \in [1..MaxTokens -> SanitizerTokens]}

\* sanitizeLinesForParsing(content) about to read the first character
InitSanitizer ==
    /\ EngineIdle
    /\ AnalyzersIdle
    /\ editor = NoEditor
    /\ \E content \in SanitizerContents :
           sanitizer = [content |-> content, lines |-> Split(content, "\n"), line |-> 1, i |-> 1,
                        state |-> KotlinSanitizerState, sanitized |-> <<>>, output |-> <<>>,
                        opened |-> 0, closed |-> 0]

\* One iteration of the for loop of sanitizeLineForParsing
SanitizeCharacter ==
    /\ sanitizer.line <= Len(sanitizer.lines)
    /\ sanitizer.i <= Len(sanitizer.lines[sanitizer.line])
    /\ LET line == sanitizer.lines[sanitizer.line]
           step == sanitizeLineStep(line, sanitizer.i, sanitizer.state)
           read == SubSeq(line, sanitizer.i, sanitizer.i + step.n - 1)
       IN  sanitizer' =
               IF step.break THEN [sanitizer EXCEPT !.i = Len(line) + 1]
               ELSE [sanitizer EXCEPT !.i = @ + step.n,
                                      !.state = step.state,
                                      !.sanitized = @ \o step.text,
                                      !.opened = @ + (IF read = <<"/","*">> THEN 1 ELSE 0),
                                      !.closed = @ + (IF read = <<"*","/">> THEN 1 ELSE 0)]
    /\ UNCHANGED <<phase, config, layerMap, modules, modulesWithLayers, result, lang, files,
                   analyzed, out, registry, unreadable, rejected, editor>>

\* The loop of a line ends: map() returns its text and calls the callback
\* on the next line with the same state object
SanitizeNextLine ==
    /\ sanitizer.line <= Len(sanitizer.lines)
    /\ sanitizer.i > Len(sanitizer.lines[sanitizer.line])
    /\ sanitizer' = [sanitizer EXCEPT !.line = @ + 1, !.i = 1, !.sanitized = <<>>,
                                      !.output = Append(@, sanitizer.sanitized)]
    /\ UNCHANGED <<phase, config, layerMap, modules, modulesWithLayers, result, lang, files,
                   analyzed, out, registry, unreadable, rejected, editor>>

NextSanitizer == SanitizeCharacter \/ SanitizeNextLine

SpecSanitizer == InitSanitizer /\ [][NextSanitizer]_vars

\* The modes of a sanitizer state that are active
ActiveModes(state) ==
    {mode \in {"blockComment", "rawString", "doubleQuote", "singleQuote"} :
        \/ mode = "blockComment" /\ state.blockCommentDepth > 0
        \/ mode = "rawString" /\ state.inRawString
        \/ mode = "doubleQuote" /\ state.inDoubleQuote
        \/ mode = "singleQuote" /\ state.inSingleQuote}

\* The state sanitizeLineForParsing leaves after the first k lines
RECURSIVE StateAfterLines(_, _)
StateAfterLines(lines, k) ==
    IF k = 0 THEN KotlinSanitizerState
    ELSE sanitizeLineForParsing(lines[k], StateAfterLines(lines, k - 1)).state

\* C27: after every character of every line of the Kotlin sanitizer at most
\* one of the modes block comment, raw string, double-quoted string and
\* single-quoted literal is active, blockCommentDepth is not negative,
\* escaped is set only inside a double- or single-quoted literal, the depth
\* of the block comment is the number of `/*` read less the number of `*/`
\* read (so the comment is left only when as many of each were read), and a
\* line starts in the state the line before it ended in.
C27_SanitizerStateInvariant ==
    sanitizer # NoSanitizer =>
        /\ Cardinality(ActiveModes(sanitizer.state)) <= 1
        /\ sanitizer.state.blockCommentDepth >= 0
        /\ sanitizer.state.escaped =>
               (sanitizer.state.inDoubleQuote \/ sanitizer.state.inSingleQuote)
        /\ sanitizer.state.blockCommentDepth = sanitizer.opened - sanitizer.closed
        /\ (sanitizer.state.blockCommentDepth = 0) <=> (sanitizer.opened = sanitizer.closed)
        /\ sanitizer.i = 1 =>
               sanitizer.state = StateAfterLines(sanitizer.lines, sanitizer.line - 1)
        /\ sanitizer.line > Len(sanitizer.lines) =>
               sanitizer.output = sanitizeLinesForParsing(sanitizer.content)

\* A block comment nested in another was left
C27_Witness ==
    /\ sanitizer # NoSanitizer
    /\ sanitizer.opened = 2 /\ sanitizer.closed = 2
    /\ sanitizer.state.blockCommentDepth = 0
    /\ ActiveModes(sanitizer.state) = {}


-----------------------------------------------------------------------------
(* The violation list of analyze.                                          *)

\* The rule identifiers in the order analyze runs the checks
CheckOrder ==
    <<"unresolved-import", "dependency-direction", "circular-dependency",
      "business-logic-placement", "kotlin-architecture-anti-pattern">>

CheckRank(type) == CHOOSE k \in 1..Len(CheckOrder) : CheckOrder[k] = type

\* The rule identifier a flag of config.rules switches
FlagType(flag) ==
    CASE flag = "enforceLayerBoundaries" -> "dependency-direction"
      [] flag = "preventCircularDependencies" -> "circular-dependency"
      [] flag = "businessLogicInDomain" -> "business-logic-placement"

\* What the check of a rule identifier returns on the analyzed modules, the
\* empty list when the configuration does not run it
CheckOutput(type) ==
    CASE type = "unresolved-import" -> checkUnresolvedImports(modulesWithLayers)
      [] type = "dependency-direction" ->
            IF RuleEnabled(config.rules.enforceLayerBoundaries)
            THEN checkLayerBoundaries(config.layers, layerMap, modulesWithLayers) ELSE <<>>
      [] type = "circular-dependency" ->
            IF RuleEnabled(config.rules.preventCircularDependencies)
            THEN checkCircularDependencies(modulesWithLayers) ELSE <<>>
      [] type = "business-logic-placement" ->
            IF RuleEnabled(config.rules.businessLogicInDomain)
            THEN checkBusinessLogicPlacement(modulesWithLayers) ELSE <<>>
      [] type = "kotlin-architecture-anti-pattern" ->
            IF config.language = "kotlin"
            THEN checkKotlinArchitectureAntiPatterns(modulesWithLayers) ELSE <<>>

\* The violations of a rule identifier in a violation list, in order
OfType(violations, type) == SelectSeq(violations, LAMBDA v : v.ruleId = type)

\* C28: the violations analyze returns are those of the unresolved-import,
\* dependency-direction, circular-dependency, business-logic-placement and
\* Kotlin anti-pattern checks in that order, each check's output whole and in
\* its own order with its duplicates kept, and setting one rule flag to
\* another value changes the violations of no other check.
C28_ConcatenationInFixedOrder ==
    Analyzed =>
        /\ \A k \in 1..(Len(result.violations) - 1) :
               CheckRank(result.violations[k].ruleId) <= CheckRank(result.violations[k + 1].ruleId)
        /\ \A k \in 1..Len(CheckOrder) :
               OfType(result.violations, CheckOrder[k]) = CheckOutput(CheckOrder[k])
        /\ \A flag \in RuleFlags : \A value \in {"true", "false"} :
               LET other == analyze([config EXCEPT !.rules[flag] = value], layerMap,
                                    modules, modulesWithLayers)
               IN  \A k \in 1..Len(CheckOrder) :
                       CheckOrder[k] # FlagType(flag) =>
                           OfType(other.violations, CheckOrder[k])
                               = OfType(result.violations, CheckOrder[k])

\* Three checks reported, one of them the same violation twice
C28_Witness ==
    /\ Analyzed
    /\ Cardinality({result.violations[k].ruleId : k \in 1..Len(result.violations)}) >= 3
    /\ \E j, k \in 1..Len(result.violations) :
           j < k /\ result.violations[j] = result.violations[k]


-----------------------------------------------------------------------------
(* The default configurations of onboarding under the rule engine.         *)

ArchitecturePatterns == {"clean", "mvc", "mvvm", "mvp", "modular"}

Languages == {"typescript", "javascript", "swift", "python", "kotlin"}

\* isSwift ? swift : usesLowercaseFolders ? lower : other
DefaultPattern(language, swift, lower, other) ==
    IF language = "swift" THEN swift
    ELSE IF language \in {"python", "kotlin"} THEN lower
    ELSE other

\* The layers createDefaultConfig sets for a pattern and a language
createDefaultLayers(pattern, language) ==
    LET pick(swift, lower, other) == DefaultPattern(language, swift, lower, other)
        model == LayerDef("model", pick(<<"*","*","/","M","o","d","e","l","s","/","*","*">>, <<"*","*","/","m","o","d","e","l","s","/","*","*">>, <<"*","*","/","m","o","d","e","l","?","(","s",")","/","*","*">>),
                          <<>>, <<>>)
        view(allowed) ==
            LayerDef("view", pick(<<"*","*","/","V","i","e","w","s","/","*","*">>, <<"*","*","/","v","i","e","w","s","/","*","*">>, <<"*","*","/","v","i","e","w","?","(","s",")","/","*","*">>),
                     allowed, <<>>)
    IN  CASE pattern = "clean" ->
               << LayerDef("presentation",
                           pick(<<"*","*","/","P","r","e","s","e","n","t","a","t","i","o","n","/","*","*">>, <<"*","*","/","p","r","e","s","e","n","t","a","t","i","o","n","/","*","*">>, <<"*","*","/","p","r","e","s","e","n","t","a","t","i","o","n","/","*","*">>),
                           <<"domain">>, <<>>),
                  LayerDef("domain", pick(<<"*","*","/","D","o","m","a","i","n","/","*","*">>, <<"*","*","/","d","o","m","a","i","n","/","*","*">>, <<"*","*","/","d","o","m","a","i","n","/","*","*">>),
                           <<>>, <<>>),
                  LayerDef("data", pick(<<"*","*","/","D","a","t","a","/","*","*">>, <<"*","*","/","d","a","t","a","/","*","*">>, <<"*","*","/","d","a","t","a","/","*","*">>),
                           <<"domain">>, <<>>),
                  LayerDef("infrastructure",
                           pick(<<"*","*","/","I","n","f","r","a","s","t","r","u","c","t","u","r","e","/","*","*">>, <<"*","*","/","i","n","f","r","a","s","t","r","u","c","t","u","r","e","/","*","*">>,
                                <<"*","*","/","i","n","f","r","a","s","t","r","u","c","t","u","r","e","/","*","*">>),
                           <<"domain", "data">>, <<>>) >>
          [] pattern = "mvc" ->
               << model, view(<<>>),
                  LayerDef("controller",
                           pick(<<"*","*","/","C","o","n","t","r","o","l","l","e","r","s","/","*","*">>, <<"*","*","/","c","o","n","t","r","o","l","l","e","r","s","/","*","*">>, <<"*","*","/","c","o","n","t","r","o","l","l","e","r","?","(","s",")","/","*","*">>),
                           <<"model", "view">>, <<>>) >>
          [] pattern = "mvvm" ->
               << model, view(<<"viewmodel">>),
                  LayerDef("viewmodel",
                           pick(<<"*","*","/","V","i","e","w","M","o","d","e","l","s","/","*","*">>, <<"*","*","/","v","i","e","w","m","o","d","e","l","s","/","*","*">>, <<"*","*","/","v","i","e","w","m","o","d","e","l","?","(","s",")","/","*","*">>),
                           <<"model">>, <<>>) >>
          [] pattern = "mvp" ->
               << model, view(<<>>),
                  LayerDef("presenter",
                           pick(<<"*","*","/","P","r","e","s","e","n","t","e","r","s","/","*","*">>, <<"*","*","/","p","r","e","s","e","n","t","e","r","s","/","*","*">>, <<"*","*","/","p","r","e","s","e","n","t","e","r","?","(","s",")","/","*","*">>),
                           <<"model", "view">>, <<>>) >>
          [] pattern = "modular" ->
               << LayerDef("ui", pick(<<"*","*","/","U","I","/","*","*">>, <<"*","*","/","u","i","/","*","*">>, <<"*","*","/","u","i","/","*","*">>),
                           <<"business_logic">>, <<>>),
                  LayerDef("business_logic",
                           pick(<<"*","*","/","B","u","s","i","n","e","s","s","/","*","*">>, <<"*","*","/","b","u","s","i","n","e","s","s","/","*","*">>, <<"*","*","/","b","u","s","i","n","e","s","s","/","*","*">>),
                           <<>>, <<>>),
                  LayerDef("data", pick(<<"*","*","/","D","a","t","a","/","*","*">>, <<"*","*","/","d","a","t","a","/","*","*">>, <<"*","*","/","d","a","t","a","/","*","*">>),
                           <<"business_logic">>, <<>>) >>

createDefaultConfig(pattern, language) ==
    [pattern |-> pattern, language |-> language,
     layers |-> createDefaultLayers(pattern, language),
     rules |-> Rules("true", "true", "true")]

\* The directories of the projects the default configurations are tried on
DefaultDirectories ==
    {<<"m","o","d","e","l">>, <<"m","o","d","e","l","s">>, <<"v","i","e","w">>, <<"v","i","e","w","s">>, <<"c","o","n","t","r","o","l","l","e","r">>, <<"c","o","n","t","r","o","l","l","e","r","s">>,
     <<"v","i","e","w","m","o","d","e","l","s">>, <<"p","r","e","s","e","n","t","e","r">>, <<"d","o","m","a","i","n">>, <<"u","i">>, <<"M","o","d","e","l","s">>, <<"V","i","e","w","s">>, <<"l","i","b">>}

\* new RuleEngine(ConfigParser.createDefaultConfig(pattern, language))
InitDefaults ==
    /\ \E pattern \in ArchitecturePatterns, language \in Languages :
           config = createDefaultConfig(pattern, language)
    /\ layerMap = BuildLayerMap(config.layers)
    /\ phase = "constructed"
    /\ modules = <<>>
    /\ modulesWithLayers = <<>>
    /\ result = NoResult
    /\ AnalyzersIdle
    /\ ToolsIdle

\* engine.analyze on a project of two files, src/<directory>/user and src/app
AnalyzeDefaults ==
    /\ phase = "constructed"
    /\ \E directory \in DefaultDirectories :
           AnalyzeModules(<< Module(<<"s","r","c","/">> \o directory \o <<"/","u","s","e","r">>,
                                    <<Dep(<<"s","r","c","/","a","p","p">>, 1, <<"i","m","p","o","r","t"," ","a","p","p">>, FALSE, FALSE)>>, <<>>),
                             Module(<<"s","r","c","/","a","p","p">>, <<>>, <<>>) >>)

NextDefaults == AnalyzeDefaults

SpecDefaults == InitDefaults /\ [][NextDefaults]_vars

\* The directory names a pattern of the shape **/name/** names, where
\* name may end in the optional group ?(s): name and name followed by s
NamedDirectories(pattern) ==
    LET name == SubSeq(pattern, 4, Len(pattern) - 3)
    IN  IF EndsWith(name, <<"?","(","s",")">>)
        THEN {SubSeq(name, 1, Len(name) - 4), SubSeq(name, 1, Len(name) - 4) \o <<"s">>}
        ELSE {name}

\* The layers of the configuration whose pattern names a directory of the path
LayersNaming(path) ==
    {k \in 1..Len(config.layers) :
        \E directory \in NamedDirectories(config.layers[k].pattern) :
            Includes(path, <<"/">> \o directory \o <<"/">>)}

\* C29: under a configuration of createDefaultConfig, a file under a
\* directory that the pattern of one layer names (for **/model?(s)/** the
\* directories model and models) is assigned that layer.
C29_DefaultPatternsEffective ==
    (Analyzed /\ "pattern" \in DOMAIN config) =>
        \A i \in 1..Len(modulesWithLayers) :
            \A k \in LayersNaming(modulesWithLayers[i].path) :
                LayersNaming(modulesWithLayers[i].path) = {k} =>
                    modulesWithLayers[i].layer = config.layers[k].name


-----------------------------------------------------------------------------
(* The editor extension: lintWorkspace runs and the diagnostic collection. *)

MaxRuns == 3    \* calls of lintWorkspace in a session

\* workspaceFolder.uri.fsPath
EditorRootDir == <<"/","w">>

EditorViolation(type, severity, message, filePath, line) ==
    [type |-> type, severity |-> severity, message |-> message, filePath |-> filePath,
     line |-> line]

\* What the workspace holds when lintAuto reads it
Workspaces == {"noConfig", "badConfig", "clean", "one", "two"}

\* await arcLint.lintAuto(rootDir): null without .arclint.yml, a rejection when
\* the configuration does not load, the AnalysisResult otherwise
LintAutoOutcome(workspace) ==
    CASE workspace = "noConfig" -> [kind |-> "null", violations |-> <<>>]
      [] workspace = "badConfig" -> [kind |-> "throws", violations |-> <<>>]
      [] workspace = "clean" -> [kind |-> "result", violations |-> <<>>]
      [] workspace = "one" ->
            [kind |-> "result",
             violations |->
                << EditorViolation("wrong_dependency_direction", "error", "m1", <<"a",".","t","s">>, 3),
                   EditorViolation("unresolved_import", "info", "m2", <<"/","w","/","b",".","t","s">>, 1),
                   EditorViolation("circular_dependency", "warning", "m3", <<"a",".","t","s">>, 0) >>]
      [] workspace = "two" ->
            [kind |-> "result",
             violations |->
                << EditorViolation("wrong_dependency_direction", "error", "m4", <<"b",".","t","s">>, 2),
                   EditorViolation("circular_dependency", "warning", "m5", <<"c",".","t","s">>, 1) >>]

\* path.isAbsolute(filePath) ? filePath : path.join(rootDir, filePath)
DiagnosticFile(filePath) ==
    IF StartsWith(filePath, <<"/">>) THEN filePath ELSE EditorRootDir \o <<"/">> \o filePath

createDiagnostic(violation) ==
    [line |-> Max({0, violation.line - 1}),
     message |-> violation.message,
     severity |-> IF violation.severity = "error" THEN "Error"
                  ELSE IF violation.severity = "warning" THEN "Warning"
                  ELSE "Information",
     source |-> "arclint",
     code |-> violation.type]

\* violationsByFile and the loop of diagnosticCollection.set over it, on a
\* collection that holds `shown`
setDiagnostics(shown, violations) ==
    LET filePaths == {DiagnosticFile(violations[k].filePath) : k \in 1..Len(violations)}
        ofFile(filePath) ==
            SelectSeq(violations, LAMBDA v : DiagnosticFile(v.filePath) = filePath)
        grouped == [filePath \in filePaths |->
                        [k \in 1..Len(ofFile(filePath)) |-> createDiagnostic(ofFile(filePath)[k])]]
    IN  grouped @@ shown

\* Variant: the collection is not cleared before the new diagnostics are set
showOutcome_NoClear(shown, outcome) ==
    IF outcome.kind = "result" THEN setDiagnostics(shown, outcome.violations) ELSE shown

\* The rest of lintWorkspace once lintAuto has settled with `outcome`: return
\* on null, the catch block on a rejection, clear() and the set() loop otherwise
showOutcome(shown, outcome) ==
    IF outcome.kind = "result" THEN setDiagnostics(<<>>, outcome.violations) ELSE shown

\* activate(): an empty collection, no run yet; the settings arclint.enable
\* and arclint.lintOnSave as the user has them
InitEditor ==
    /\ EngineIdle
    /\ AnalyzersIdle
    /\ sanitizer = NoSanitizer
    /\ \E enable \in BOOLEAN, lintOnSave \in BOOLEAN, workspace \in Workspaces :
           editor = [active |-> TRUE, enable |-> enable, lintOnSave |-> lintOnSave,
                     workspace |-> workspace, runs |-> <<>>, diagnostics |-> <<>>,
                     initialLint |-> enable]

EditorFrame ==
    UNCHANGED <<phase, config, layerMap, modules, modulesWithLayers, result, lang, files,
                analyzed, out, registry, unreadable, rejected, sanitizer>>

\* lintWorkspace() up to its await
StartedRun == [pc |-> "started", outcome |-> [kind |-> "none", violations |-> <<>>]]

\* The user saves a document: the workspace changes, and
\* onDidSaveTextDocument calls lintWorkspace when both settings are on
SaveDocument ==
    /\ editor.active
    /\ \E workspace \in Workspaces :
           editor' = IF editor.enable /\ editor.lintOnSave /\ Len(editor.runs) < MaxRuns
                     THEN [editor EXCEPT !.workspace = workspace,
                                         !.runs = Append(@, StartedRun)]
                     ELSE [editor EXCEPT !.workspace = workspace]
    /\ EditorFrame

\* The command arclint.lint calls lintWorkspace
LintCommand ==
    /\ editor.active
    /\ Len(editor.runs) < MaxRuns
    /\ editor' = [editor EXCEPT !.runs = Append(@, StartedRun)]
    /\ EditorFrame

\* The timer of activate() calls lintWorkspace
InitialLint ==
    /\ editor.active
    /\ editor.initialLint
    /\ Len(editor.runs) < MaxRuns
    /\ editor' = [editor EXCEPT !.runs = Append(@, StartedRun), !.initialLint = FALSE]
    /\ EditorFrame

\* lintAuto of a run reads the workspace as it is at that time
LintAutoReads ==
    /\ \E r \in 1..Len(editor.runs) :
           /\ editor.runs[r].pc = "started"
           /\ editor' = [editor EXCEPT !.runs[r] = [pc |-> "read",
                                                    outcome |-> LintAutoOutcome(editor.workspace)]]
    /\ EditorFrame

\* The promise of lintAuto settles and the rest of lintWorkspace runs, with
\* no await in it, to its end
LintAutoSettles ==
    /\ \E r \in 1..Len(editor.runs) :
           /\ editor.runs[r].pc = "read"
           /\ editor' = [editor EXCEPT !.runs[r].pc = "done",
                                       !.diagnostics = showOutcome(@, editor.runs[r].outcome)]
    /\ EditorFrame

NextEditor == SaveDocument \/ LintCommand \/ InitialLint \/ LintAutoReads \/ LintAutoSettles

SpecEditor == InitEditor /\ [][NextEditor]_vars

\* The entries (file, diagnostic) a collection shows
ShownEntries(shown) ==
    UNION {{<<filePath, shown[filePath][k]>> : k \in 1..Len(shown[filePath])} :
               filePath \in DOMAIN shown}

ShownCount(shown) ==
    Cardinality(UNION {{<<filePath, k>> : k \in 1..Len(shown[filePath])} :
                           filePath \in DOMAIN shown})

\* The collection holds the diagnostics of all the violations of the run r,
\* which completed with a result, and no other
ShowsRun(r) ==
    LET violations == editor.runs[r].outcome.violations
    IN  /\ editor.runs[r].pc = "done"
        /\ editor.runs[r].outcome.kind = "result"
        /\ ShownEntries(editor.diagnostics)
               = {<<DiagnosticFile(violations[k].filePath), createDiagnostic(violations[k])>> :
                      k \in 1..Len(violations)}
        /\ ShownCount(editor.diagnostics) = Len(violations)

\* A run has completed with a result
CompletedRuns ==
    {r \in 1..Len(editor.runs) :
        editor.runs[r].pc = "done" /\ editor.runs[r].outcome.kind = "result"}

\* The run r settles without a result: lintAuto gave null or rejected
SettlesWithoutResult(r) ==
    /\ r <= Len(editor.runs)
    /\ editor.runs[r].pc = "read"
    /\ editor.runs[r].outcome.kind \in {"null", "throws"}
    /\ editor'.runs[r].pc = "done"

\* C30: whatever the interleaving of the lintWorkspace runs started by
\* saves, by the command and by the timer of activate, the diagnostic
\* collection is empty while no run has completed with a result and holds
\* afterwards the diagnostics of all the violations of one completed run
\* and nothing else; a run whose lintAuto rejects or returns null leaves
\* the collection as it was.
C30_DiagnosticsOfOneCompletedRun ==
    /\ [](editor.active =>
             IF CompletedRuns = {} THEN DOMAIN editor.diagnostics = {}
             ELSE \E r \in CompletedRuns : ShowsRun(r))
    /\ [][editor.active =>
             \A r \in 1..MaxRuns :
                 SettlesWithoutResult(r) => editor'.diagnostics = editor.diagnostics]_vars

\* Two overlapping runs completed with different violations, the later
\* started first, and a third run failed while diagnostics were shown
C30_Witness ==
    /\ editor.active
    /\ Len(editor.runs) = 3
    /\ \A r \in 1..3 : editor.runs[r].pc = "done"
    /\ editor.runs[1].outcome = LintAutoOutcome("one")
    /\ editor.runs[2].outcome = LintAutoOutcome("two")
    /\ editor.runs[3].outcome.kind = "throws"
    /\ ShowsRun(1) /\ ~ShowsRun(2)

=============================================================================
